---- MODULE Spec2Model ----
(***************************************************************************)
(* pylibselenium: the DriverClient wrapper (driver/client.py), the custom  *)
(* wait predicates (driver/wait.py) and the polling loop that drives them. *)
(* Two variants of the package are in the tree: "pylibselenium"            *)
(* (src/pylibselenium/driver) and the older "driver" (src/driver).         *)
(*                                                                         *)
(* Strings are sequences of one-character strings.  Python's None is the   *)
(* record None_, a present value v is Some(v).  Time is counted in whole   *)
(* units of the poll interval's granularity; a poll of a predicate takes   *)
(* no time unless the predicate itself sleeps or waits.                    *)
(***************************************************************************)
EXTENDS Integers, Sequences, FiniteSets, TLC

\* ------------------------------------------------------------------ bounds
\* DriverClient(poll_time=...), in time units.
PollTime == 3
\* DriverClient(poll_frequency=...), in time units.
PollFrequency == 1
\* Longest of the short key strings sent to a field.
MaxKeysLen == 3
\* Longest maxlength attribute text tried on _get_max_length alone.
MaxAttrLen == 2
\* Rounds of an endless client loop that the model follows.
MaxRounds == 2
\* Windows a session opens at most.
MaxWindows == 3
\* Cookies a session holds at most.
MaxCookies == 2
\* Latest clock reading, in half seconds.
MaxNow == 2
\* Calls of ProfileClient methods in one run.
MaxCalls == 2
\* The largest max_retries of a CachedElement and retries of retry().
MaxRetries == 2
\* How many times the node behind a CachedElement is rendered.
MaxRenders == 3
\* How many times perform_action is called on one CachedElement.
MaxActs == 2
\* The most invocations of a wrapped function that fail before one succeeds.
MaxFails == 3
\* The largest delay of retry() and retry_until_successful(), in seconds.
MaxDelay == 1

\* ------------------------------------------------------- program constants
\* wait.py: min(current_length + 100, 10000) and the final default 1000.
LengthBuffer == 100
LengthCap == 10000
LengthDefault == 1000

\* ------------------------------------------------------------------ values
None_ == [some |-> FALSE, val |-> 0]
Some(v) == [some |-> TRUE, val |-> v]
NoStr == [some |-> FALSE, str |-> <<>>]
Str(s) == [some |-> TRUE, str |-> s]

Min(a, b) == IF a <= b THEN a ELSE b
Max(a, b) == IF a >= b THEN a ELSE b

\* Python's s[:n]: a negative n counts from the end.
Slice(s, n) ==
  IF n >= 0 THEN SubSeq(s, 1, Min(n, Len(s)))
  ELSE SubSeq(s, 1, Max(Len(s) + n, 0))

IsSpace(c) == c = " "
DigitVal == [c \in {"0", "1", "2", "3", "4", "5", "6", "7", "8", "9"} |->
  CASE c = "0" -> 0 [] c = "1" -> 1 [] c = "2" -> 2 [] c = "3" -> 3
    [] c = "4" -> 4 [] c = "5" -> 5 [] c = "6" -> 6 [] c = "7" -> 7
    [] c = "8" -> 8 [] c = "9" -> 9]
IsDigit(c) == c \in DOMAIN DigitVal

RECURSIVE LStrip(_)
LStrip(s) == IF s # <<>> /\ IsSpace(Head(s)) THEN LStrip(Tail(s)) ELSE s
RECURSIVE RStrip(_)
RStrip(s) ==
  IF s # <<>> /\ IsSpace(s[Len(s)]) THEN RStrip(SubSeq(s, 1, Len(s) - 1)) ELSE s
\* str.strip()
strip(s) == RStrip(LStrip(s))

RECURSIVE DigitsValue(_, _)
DigitsValue(s, acc) ==
  IF s = <<>> THEN acc ELSE DigitsValue(Tail(s), 10 * acc + DigitVal[Head(s)])
AllDigits(s) == s # <<>> /\ \A i \in 1..Len(s) : IsDigit(s[i])
\* The leading run of digits of s.
RECURSIVE DigitRun(_)
DigitRun(s) ==
  IF s # <<>> /\ IsDigit(Head(s)) THEN <<Head(s)>> \o DigitRun(Tail(s)) ELSE <<>>

\* Python's int(text): surrounding whitespace is dropped, one sign is allowed,
\* and the rest must be digits; anything else raises ValueError (ok = FALSE).
int(s) ==
  LET t == strip(s)
      signed == t # <<>> /\ Head(t) \in {"-", "+"}
      body == IF signed THEN Tail(t) ELSE t
      neg == signed /\ Head(t) = "-"
  IN IF AllDigits(body)
     THEN [ok |-> TRUE, val |-> IF neg THEN 0 - DigitsValue(body, 0) ELSE DigitsValue(body, 0)]
     ELSE [ok |-> FALSE, val |-> 0]

\* The length limit the browser itself enforces on a text field (HTML's
\* rules for parsing a non-negative integer: leading whitespace skipped, an
\* optional sign, then digits; what follows the digits is ignored).
NativeLimit(attr) ==
  LET t == LStrip(attr.str)
      signed == t # <<>> /\ Head(t) \in {"-", "+"}
      body == IF signed THEN Tail(t) ELSE t
      neg == signed /\ Head(t) = "-"
      run == DigitRun(body)
      v == DigitsValue(run, 0)
  IN IF ~attr.some \/ run = <<>> \/ (neg /\ v # 0) THEN None_ ELSE Some(v)

\* What typing `keys` into a field holding `value` leaves in it.
Typed(value, keys, attr) ==
  LET all == value \o keys
      lim == NativeLimit(attr)
  IN IF lim.some THEN SubSeq(all, 1, Min(lim.val, Len(all))) ELSE all

\* ------------------------------------------------- wait.py: _get_max_length
\* WaitForKeysVerification._get_max_length (the WithDelay class holds a
\* copy of the same text).  attrFault: element.get_attribute raises;
\* propFault: element.get_property raises.
_get_max_length_fallback_first(attrFault, attr, fallback, propFault, value) ==
  LET parsed == int(attr.str)
      fromAttr == ~attrFault /\ attr.some /\ strip(attr.str) # <<>>
                  /\ parsed.ok /\ parsed.val > 0
  IN IF fallback.some THEN fallback.val
     ELSE IF fromAttr THEN parsed.val
     ELSE IF propFault THEN LengthDefault
     ELSE Min(Len(value) + LengthBuffer, LengthCap)

_get_max_length(attrFault, attr, fallback, propFault, value) ==
  LET parsed == int(attr.str)
      fromAttr == ~attrFault /\ attr.some /\ strip(attr.str) # <<>>
                  /\ parsed.ok /\ parsed.val > 0
  IN IF fromAttr THEN parsed.val
     ELSE IF fallback.some THEN fallback.val
     ELSE IF propFault THEN LengthDefault
     ELSE Min(Len(value) + LengthBuffer, LengthCap)


\* ------------------------------------------------------------------- state
VARIABLES
  cfg,   \* the call under way: package variant, constructor and call arguments
  dom,   \* the session: the located node, the text field, the windows
  pred,  \* the attributes of the predicate instance of the wait under way
  wait,  \* the polling loop: time elapsed, polls made, last result
  call,  \* the DriverClient method: position, outcome, value returned
  hist,  \* what the predicate instance has done to the session so far
  gml,   \* inputs and result of one application of _get_max_length
  jar,   \* ProfileClient: the session's cookies, the cookie file, the clock
  ce,    \* CachedElement: the cached element, the node, perform_action under way
  rt     \* a function wrapped by retry or retry_until_successful, one call of it
vars == <<cfg, dom, pred, wait, call, hist, gml, jar, ce, rt>>

Variants == {"pylibselenium", "driver"}
\* client.py: wait_to_click_element(locator, wait=1) and the like.
DefaultWait == 1
\* wait.py: WebDriverWait(driver, 10) inside WaitForElementToBeRemoved.
StalenessWait == 10

\* ---------------------------------------------------- client.py: check_throw
\* traceback.print_exc(limit): the driver variant passes the Error object as
\* `limit`, and the traceback module compares limit >= 0.
traceback_print_exc(limitIsNumberOrNone) ==
  IF limitIsNumberOrNone THEN "ok" ELSE "TypeError"

\* src/pylibselenium: logger.critical, traceback.print_exception(error),
\* then raise if self.throw.
check_throw_always_raises(throw) == "Error"
check_throw_pylibselenium(throw) == IF throw THEN "Error" ELSE "pass"

\* src/driver: logging.critical(error), traceback.print_exc(error), then
\* raise if self.throw.
check_throw_driver(throw) ==
  IF traceback_print_exc(FALSE) # "ok" THEN traceback_print_exc(FALSE)
  ELSE IF throw THEN "Error" ELSE "pass"

check_throw(variant, throw) ==
  IF variant = "driver" THEN check_throw_driver(throw)
  ELSE check_throw_pylibselenium(throw)

\* ------------------------------------------- client.py: the public methods
\* A method is its try body (the waits and driver calls in order), what its
\* except clause does, whether the body is inside a loop, and what it returns
\* on success.
W(p) == [kind |-> "wait", what |-> p]
D(c) == [kind |-> "driver", what |-> c]
M(steps, onError, loop, ret) ==
  [steps |-> steps, onError |-> onError, loop |-> loop, ret |-> ret]

maximize_window == M(<<D("maximize_window")>>, "check_throw", "once", "None")
get_elements_until_none_drops_value ==
  M(<<W("PresenceOfAllElementsLocatedIfNotEmpty")>>, "check_throw", "once", "None")
get_elements_until_none ==
  M(<<W("PresenceOfAllElementsLocatedIfNotEmpty")>>, "check_throw", "once", "value")
get_element == M(<<W("element_to_be_clickable")>>, "check_throw", "once", "value")
try_to_get_element == M(<<W("element_to_be_clickable")>>, "return_False", "once", "value")
get_element_by_tag_name == M(<<D("find_element")>>, "print_exc", "once", "value")
send_modifer_key == M(<<D("perform")>>, "print_exc", "once", "None")
find_and_send_keys ==
  M(<<W("element_to_be_clickable"), W("WaitForKeysVerification")>>,
    "check_throw", "once", "None")
find_and_send_keys_with_delay ==
  M(<<W("element_to_be_clickable"), W("WaitForKeysVerificationWithDelay")>>,
    "check_throw", "once", "None")
find_and_click ==
  M(<<W("presence_of_element_located"), W("element_to_be_clickable"),
      D("click_element")>>, "check_throw", "once", "None")
click_chain_elements_infinitely ==
  M(<<W("presence_of_element_located"), W("element_to_be_clickable"),
      D("click_element")>>, "check_throw", "forever", "None")
click_and_wait_for_load == M(<<W("WaitForLoadAfterClick")>>, "check_throw", "once", "None")
click_and_wait_for_element ==
  M(<<W("WaitForElementAfterClick")>>, "check_throw", "once", "None")
click_and_wait_for_html_load ==
  M(<<W("WaitForHtmlLoadAfterClick")>>, "check_throw", "once", "None")
\* src/driver/client.py: two waits in the one try body, each on a predicate
\* instance of its own.
click_and_wait_for_html_load_driver ==
  M(<<W("WaitForLoadAfterClick"), W("WaitForHtmlLoadAfterClick")>>,
    "check_throw", "once", "None")
click_element_and_wait_for_load ==
  M(<<W("element_to_be_clickable"), W("WaitForHtmlLoadAfterClickElement")>>,
    "check_throw", "once", "None")
wait_for_element == M(<<W("presence_of_element_located")>>, "check_throw", "once", "None")
wait_to_click_element == M(<<W("WaitElementToBeClickable")>>, "check_throw", "once", "None")
wait_for_element_to_disappear_by_xpath ==
  M(<<W("WaitForElementToBeStale")>>, "check_throw", "once", "None")
\* The same wait, the predicate being built on the element argument itself.
wait_for_element_to_disappear ==
  M(<<W("WaitForElementToBeStale")>>, "check_throw", "once", "None")
element_exists == M(<<W("presence_of_element_located")>>, "return_False", "once", "True")
find_window_handle_switch_to_it ==
  M(<<W("WindowHandleToBeAvailable"), D("switch_to_window")>>,
    "check_throw", "once", "None")
\* The index is len(self.driver.window_handles) - 1, read inside the try body.
find_window_handle_switch_to_it_close_previous ==
  M(<<W("WindowHandleToBeAvailableSwitchClosePrevious")>>, "check_throw", "once", "None")
switch_to_latest_window ==
  M(<<D("window_handles"), W("WindowHandleToBeAvailable"), D("switch_to_window")>>,
    "check_throw", "once", "None")
check_element_for_value_change ==
  M(<<W("WaitForValueToChange")>>, "check_throw", "once", "None")
\* check_element_for_value_change(forever=True), had it made one wait only.
check_element_for_value_change_forever_single_wait ==
  M(<<W("WaitForValueToChange")>>, "check_throw", "once", "None")

check_element_for_value_change_forever ==
  M(<<W("WaitForValueToChange")>>, "check_throw", "until_ok", "None")


Ops == {"maximize_window", "get_elements_until_none", "get_element",
  "try_to_get_element", "get_element_by_tag_name", "send_modifer_key",
  "find_and_send_keys", "find_and_send_keys_with_delay", "find_and_click",
  "click_chain_elements_infinitely", "click_and_wait_for_load",
  "click_and_wait_for_element", "click_and_wait_for_html_load",
  "click_element_and_wait_for_load", "wait_for_element",
  "wait_to_click_element", "wait_for_element_to_disappear_by_xpath",
  "wait_for_element_to_disappear", "element_exists", "find_window_handle_switch_to_it",
  "switch_to_latest_window", "find_window_handle_switch_to_it_close_previous",
  "check_element_for_value_change", "check_element_for_value_change_forever"}

Method(op) ==
  CASE op = "maximize_window" -> maximize_window
    [] op = "get_elements_until_none" -> get_elements_until_none
    [] op = "get_element" -> get_element
    [] op = "try_to_get_element" -> try_to_get_element
    [] op = "get_element_by_tag_name" -> get_element_by_tag_name
    [] op = "send_modifer_key" -> send_modifer_key
    [] op = "find_and_send_keys" -> find_and_send_keys
    [] op = "find_and_send_keys_with_delay" -> find_and_send_keys_with_delay
    [] op = "find_and_click" -> find_and_click
    [] op = "click_chain_elements_infinitely" -> click_chain_elements_infinitely
    [] op = "click_and_wait_for_load" -> click_and_wait_for_load
    [] op = "click_and_wait_for_element" -> click_and_wait_for_element
    [] op = "click_and_wait_for_html_load" ->
         IF cfg.variant = "driver" THEN click_and_wait_for_html_load_driver
         ELSE click_and_wait_for_html_load
    [] op = "click_element_and_wait_for_load" -> click_element_and_wait_for_load
    [] op = "wait_for_element" -> wait_for_element
    [] op = "wait_to_click_element" -> wait_to_click_element
    [] op = "wait_for_element_to_disappear_by_xpath" ->
         wait_for_element_to_disappear_by_xpath
    [] op = "wait_for_element_to_disappear" -> wait_for_element_to_disappear
    [] op = "element_exists" -> element_exists
    [] op = "find_window_handle_switch_to_it" -> find_window_handle_switch_to_it
    [] op = "switch_to_latest_window" -> switch_to_latest_window
    [] op = "find_window_handle_switch_to_it_close_previous" ->
         find_window_handle_switch_to_it_close_previous
    [] op = "check_element_for_value_change" -> check_element_for_value_change
    [] op = "check_element_for_value_change_forever" ->
         check_element_for_value_change_forever
    \* "until": a wait built by the caller around one predicate of wait.py
    [] OTHER -> M(<<W(cfg.pred)>>, "propagate", "once", "value")

\* The predicates of wait.py, and the two expected_conditions the client uses.
Predicates == {"presence_of_element_located", "element_to_be_clickable",
  "PresenceOfAllElementsLocatedIfNotEmpty", "WaitForElementToBeStale",
  "WindowHandleToBeAvailable", "WindowHandleToBeAvailableSwitchClosePrevious",
  "WaitElementToBeClickable", "WaitForValueToChange", "WaitForHtmlLoadAfterClick",
  "WaitForHtmlLoadAfterClickElement", "WaitForLoadAfterClick",
  "WaitForElementAfterClick", "WaitForKeysVerification",
  "WaitForKeysVerificationWithDelay", "WaitForElementReadyState",
  "WaitForElementToBeRemoved", "WaitForLoadAfter"}
\* The classes wait.py defines.
CustomPredicates == Predicates \ {"presence_of_element_located", "element_to_be_clickable"}

ClickPredicates == {"WaitForHtmlLoadAfterClick", "WaitForHtmlLoadAfterClickElement",
  "WaitForLoadAfterClick", "WaitForElementAfterClick"}
KeysPredicates == {"WaitForKeysVerification", "WaitForKeysVerificationWithDelay"}

Steps == Method(cfg.op).steps
AtStep == call.outcome = "running" /\ call.pc <= Len(Steps)
CurStep == Steps[call.pc]
\* The predicate of the wait under way (or of the last one).
CurPred == IF call.pc <= Len(Steps) THEN CurStep.what ELSE Steps[Len(Steps)].what

\* ------------------------------------------------ the predicates of wait.py
\* One evaluation of a predicate: the value returned, the session and the
\* instance after it, and the time the evaluation itself took.
R(res, d, p, h, dur) == [res |-> res, dom |-> d, pred |-> p, hist |-> h, dur |-> dur]
Truthy(res) == res # "False"
Bool(b) == IF b THEN "True" ELSE "False"

\* element.click(): f = "click" faults before the click reaches the page,
\* f = "click_landed" faults after it did.
ClickFaults(f) == f \in {"click", "click_landed"}
Clicked(h, f) ==
  [h EXCEPT !.clickCalls = @ + 1, !.clicks = IF f = "click" THEN @ ELSE @ + 1]

\* driver.find_element(*locator): f = "find" is the driver raising, f = "unpack"
\* is the call itself raising because self.locator is not a (by, value) pair.
Found(d, f) == d.present /\ f \notin {"find", "unpack"}
\* The evaluation r, with the fault it met on record.
Noting(r, f) == [r EXCEPT !.hist.fault = f]

InSeq(x, q) == \E i \in 1..Len(q) : q[i] = x

\* driver.close() closes the window that has focus; the session's focus stays
\* on the closed handle until a switch, and close() raises in that state.
Closed(d) == [d EXCEPT !.handles = SelectSeq(@, LAMBDA w : w # d.focus)]
Closing(h, d) == [h EXCEPT !.closes = @ + 1, !.closed = d.focus]
\* close() where closing holds, then switch_to.window(target): f = "close"
\* and f = "switch" are the driver raising there.
CloseAndSwitch(d, p, h, f, target, closing) ==
  IF closing /\ (f = "close" \/ ~InSeq(d.focus, d.handles))
  THEN R("False", d, p, h, 0)
  ELSE LET d1 == IF closing THEN Closed(d) ELSE d
           h1 == IF closing THEN Closing(h, d) ELSE h
       IN IF f = "switch" \/ ~InSeq(target, d1.handles)
          THEN R("False", d1, p, h1, 0)
          ELSE R("True", [d1 EXCEPT !.focus = target], p, h1, 0)

WindowHandleToBeAvailableSwitchClosePrevious_keeps_focus(d, p, h, f) ==
  IF f = "window_handles" \/ Len(d.handles) <= cfg.index THEN R("False", d, p, h, 0)
  ELSE LET r == CloseAndSwitch(d, p, h, f, d.handles[cfg.index + 1], cfg.index > 0)
       IN IF r.res = "True" THEN [r EXCEPT !.dom.focus = d.focus] ELSE r

WindowHandleToBeAvailableSwitchClosePrevious(d, p, h, f) ==
  IF f = "window_handles" \/ Len(d.handles) <= cfg.index THEN R("False", d, p, h, 0)
  ELSE CloseAndSwitch(d, p, h, f, d.handles[cfg.index + 1], cfg.index > 0)

\* src/driver: no length test and no index test; window_handles[index] raises
\* IndexError past the end, window_handles[index - 1] is read, close() is
\* called for every index.
WindowHandleToBeAvailableSwitchClosePrevious_driver(d, p, h, f) ==
  IF f = "window_handles" \/ Len(d.handles) <= cfg.index THEN R("False", d, p, h, 0)
  ELSE CloseAndSwitch(d, p, h, f, d.handles[cfg.index + 1], TRUE)

\* selenium's expected_conditions, as the client calls them.
presence_of_element_located(d, p, h) ==
  R(IF d.present THEN "element" ELSE "False", d, p, h, 0)
element_to_be_clickable(d, p, h) ==
  R(IF d.present /\ d.enabled THEN "element" ELSE "False", d, p, h, 0)

PresenceOfAllElementsLocatedIfNotEmpty(d, p, h, f) ==
  IF f = "find" THEN R("False", d, p, h, 0)
  ELSE R(IF d.present THEN "elements" ELSE "False", d, p, h, 0)

WaitForElementToBeStale(d, p, h, f) ==
  IF Found(d, f) THEN R("False", d, p, h, cfg.wait) ELSE R("True", d, p, h, 0)

WindowHandleToBeAvailable_off_by_one(d, p, h, f) ==
  IF f = "window_handles" \/ cfg.index >= Len(d.handles) THEN R("False", d, p, h, 0)
  ELSE R(d.handles[Max(cfg.index, 1)], d, p, h, 0)

WindowHandleToBeAvailable(d, p, h, f) ==
  IF f = "window_handles" \/ cfg.index >= Len(d.handles) THEN R("False", d, p, h, 0)
  ELSE R(d.handles[cfg.index + 1], d, p, h, 0)

\* The nested WebDriverWait(driver, self.wait) either finds the element
\* clickable at once or uses up its own timeout.
\* WaitForElementReadyState, had execute_script been called before the try.
WaitForElementReadyState_unguarded_script(d, p, h, f, state) ==
  IF f = "execute_script" THEN R("raise", d, p, h, 0)
  ELSE R(IF Found(d, f) /\ state = "complete" THEN "element" ELSE "False", d, p, h, 0)

\* state is what document.readyState reads.
WaitForElementReadyState(d, p, h, f, state) ==
  IF ~Found(d, f) \/ f = "execute_script" THEN R("False", d, p, h, 0)
  ELSE R(IF state = "complete" THEN "element" ELSE "False", d, p, h, 0)

\* The element handed to the constructor is stale once it has left the
\* document; the inner wait returns when it goes (gone: within a second) and
\* raises after StalenessWait seconds when it stays.
WaitForElementToBeRemoved(d, p, h, f, gone) ==
  IF f = "is_enabled" THEN R("False", d, p, h, 0)
  ELSE IF ~d.present THEN R("True", d, p, h, 0)
  ELSE IF gone THEN R("True", [d EXCEPT !.present = FALSE], p, h, 1)
  ELSE R("False", d, p, h, StalenessWait)

WaitForLoadAfter(d, p, h, f) ==
  IF ~Found(d, f) \/ f = "is_enabled" THEN R("False", d, p, h, 0)
  ELSE R(Bool(~d.enabled), d, p, h, 0)

WaitElementToBeClickable(d, p, h, f) ==
  IF ~(d.present /\ d.enabled) THEN R("False", d, p, h, cfg.wait)
  ELSE IF ClickFaults(f) THEN R("False", d, p, Clicked(h, f), 0)
  ELSE R("True", d, p, Clicked(h, f), 0)

\* src/driver: the same after sleep(self.wait).
WaitElementToBeClickable_driver(d, p, h, f) ==
  IF ~(d.present /\ d.enabled) THEN R("False", d, p, h, cfg.wait + cfg.wait)
  ELSE IF ClickFaults(f) THEN R("False", d, p, Clicked(h, f), cfg.wait)
  ELSE R("True", d, p, Clicked(h, f), cfg.wait)

WaitForValueToChange_falsy_baseline(d, p, h, f) ==
  IF ~Found(d, f) \/ f = "text" THEN R("False", d, p, h, 0)
  ELSE IF ~p.previous_text.some \/ p.previous_text.val = ""
       THEN R("False", d, [p EXCEPT !.previous_text = [some |-> TRUE, val |-> d.text]], h, 0)
  ELSE R(Bool(p.previous_text.val # d.text), d, p, h, 0)

WaitForValueToChange(d, p, h, f) ==
  IF ~Found(d, f) \/ f = "text" THEN R("False", d, p, h, 0)
  ELSE IF ~p.previous_text.some
       THEN R("False", d, [p EXCEPT !.previous_text = [some |-> TRUE, val |-> d.text]], h, 0)
  ELSE R(Bool(p.previous_text.val # d.text), d, p, h, 0)

\* The predicate, had it reported satisfied on the polls after the click.
WaitForHtmlLoadAfterClick_satisfied_after_click(d, p, h, f) ==
  IF ~Found(d, f) THEN R("True", d, p, h, 0)
  ELSE IF ~p.clicked
       THEN IF ClickFaults(f) THEN R("True", d, p, Clicked(h, f), 0)
            ELSE R("False", d, [p EXCEPT !.clicked = TRUE], Clicked(h, f), 0)
  ELSE R("True", d, p, h, 0)

WaitForHtmlLoadAfterClick(d, p, h, f) ==
  IF ~Found(d, f) THEN R("True", d, p, h, 0)
  ELSE IF ~p.clicked
       THEN IF ClickFaults(f) THEN R("True", d, p, Clicked(h, f), 0)
            ELSE R("False", d, [p EXCEPT !.clicked = TRUE], Clicked(h, f), 0)
  ELSE R("False", d, p, h, 0)

\* The instance holds the element itself; its calls fault once the node is
\* gone from the document.
WaitForHtmlLoadAfterClickElement(d, p, h, f) ==
  IF ~p.clicked
  THEN IF ~d.present THEN R("False", d, p, [h EXCEPT !.clickCalls = @ + 1], 0)
       ELSE IF ClickFaults(f) THEN R("False", d, p, Clicked(h, f), 0)
       ELSE R("False", d, [p EXCEPT !.clicked = TRUE], Clicked(h, f), 0)
  ELSE IF ~d.present \/ f = "is_enabled" THEN R("False", d, p, h, 0)
  ELSE R(Bool(~d.enabled), d, p, h, 0)

WaitForLoadAfterClick_when_enabled(d, p, h, f) ==
  IF ~Found(d, f) THEN R("True", d, p, h, 0)
  ELSE IF ~p.clicked
       THEN IF ClickFaults(f) THEN R("True", d, p, Clicked(h, f), 0)
            ELSE R("False", d, [p EXCEPT !.clicked = TRUE], Clicked(h, f), 0)
  ELSE IF f = "is_enabled" THEN R("True", d, p, h, 0)
  ELSE R(Bool(d.enabled), d, p, h, 0)

WaitForLoadAfterClick(d, p, h, f) ==
  IF ~Found(d, f) THEN R("True", d, p, h, 0)
  ELSE IF ~p.clicked
       THEN IF ClickFaults(f) THEN R("True", d, p, Clicked(h, f), 0)
            ELSE R("False", d, [p EXCEPT !.clicked = TRUE], Clicked(h, f), 0)
  ELSE IF f = "is_enabled" THEN R("True", d, p, h, 0)
  ELSE R(Bool(~d.enabled), d, p, h, 0)

WaitForElementAfterClick(d, p, h, f) ==
  IF ~Found(d, f) THEN R("False", d, p, h, 0)
  ELSE IF ~p.clicked /\ ClickFaults(f) THEN R("False", d, p, Clicked(h, f), 0)
  ELSE LET p2 == [p EXCEPT !.clicked = TRUE]
           h2 == IF p.clicked THEN h ELSE Clicked(h, f)
       IN IF ~d.present2 \/ f = "find2" THEN R("False", d, p2, h2, 0)
          ELSE R("True", d, p2, h2, 0)


\* set_max_length: g names the calls inside _get_max_length that fault.
set_max_length_unflagged(p, d, g) ==
  [p EXCEPT !.max_length =
     Some(_get_max_length("attr" \in g, d.attr, cfg.fallback, "prop" \in g, d.value))]

set_max_length(p, d, g) ==
  [p EXCEPT !.max_length =
     Some(_get_max_length("attr" \in g, d.attr, cfg.fallback, "prop" \in g, d.value)),
            !.max_length_set = TRUE]

Resolved(h, d, g) == [h EXCEPT !.resolutions = @ + 1]

WaitForKeysVerification_no_clear(d, p, h, f, g) ==
  IF ~Found(d, f) THEN R("False", d, p, h, 0)
  ELSE
    LET fresh == ~p.max_length_set
        p1 == IF fresh THEN set_max_length(p, d, g) ELSE p
        h1 == [(IF fresh THEN Resolved(h, d, g) ELSE h) EXCEPT !.found = TRUE]
        h2 == h1
        d2 == [d EXCEPT !.value = d.value]
        d3 == [d EXCEPT !.value = Typed(d.value, cfg.keys, d.attr)]
        h3 == [h2 EXCEPT !.sends = @ + 1]
    IN IF ClickFaults(f) THEN R("False", d, p1, h2, 0)
       ELSE IF f = "clear" THEN R("False", d, p1, h2, 0)
       ELSE IF f = "send_keys" THEN R("False", d2, p1, h2, 0)
       ELSE IF f = "get_property" THEN R("False", d3, p1, h3, 0)
       ELSE R(Bool(d3.value = Slice(cfg.keys, p1.max_length.val)), d3, p1,
              [h3 EXCEPT !.quiet = @ + 1], 0)

WaitForKeysVerification_send_once(d, p, h, f, g) ==
  IF ~Found(d, f) THEN R("False", d, p, h, 0)
  ELSE
    LET fresh == ~p.max_length_set
        p1 == IF fresh THEN set_max_length(p, d, g) ELSE p
        h1 == [(IF fresh THEN Resolved(h, d, g) ELSE h) EXCEPT !.found = TRUE]
        act == h.sends = 0
        h2 == h1
        d2 == IF act THEN [d EXCEPT !.value = <<>>] ELSE d
        d3 == IF act THEN [d EXCEPT !.value = Typed(<<>>, cfg.keys, d.attr)] ELSE d
        h3 == IF act THEN [h2 EXCEPT !.sends = @ + 1] ELSE h2
    IN IF act /\ ClickFaults(f) THEN R("False", d, p1, h2, 0)
       ELSE IF act /\ f = "clear" THEN R("False", d, p1, h2, 0)
       ELSE IF act /\ f = "send_keys" THEN R("False", d2, p1, h2, 0)
       ELSE IF f = "get_property" THEN R("False", d3, p1, h3, 0)
       ELSE R(Bool(d3.value = Slice(cfg.keys, p1.max_length.val)), d3, p1,
              [h3 EXCEPT !.quiet = @ + 1], 0)

WaitForKeysVerification_whole_keys(d, p, h, f, g) ==
  IF ~Found(d, f) THEN R("False", d, p, h, 0)
  ELSE
    LET fresh == ~p.max_length_set
        p1 == IF fresh THEN set_max_length(p, d, g) ELSE p
        h1 == [(IF fresh THEN Resolved(h, d, g) ELSE h) EXCEPT !.found = TRUE]
        h2 == h1
        d2 == [d EXCEPT !.value = <<>>]
        d3 == [d EXCEPT !.value = Typed(<<>>, cfg.keys, d.attr)]
        h3 == [h2 EXCEPT !.sends = @ + 1]
    IN IF ClickFaults(f) THEN R("False", d, p1, h2, 0)
       ELSE IF f = "clear" THEN R("False", d, p1, h2, 0)
       ELSE IF f = "send_keys" THEN R("False", d2, p1, h2, 0)
       ELSE IF f = "get_property" THEN R("False", d3, p1, h3, 0)
       ELSE R(Bool(d3.value = cfg.keys), d3, p1,
              [h3 EXCEPT !.quiet = @ + 1], 0)

\* src/pylibselenium: find the element, resolve the max length if not yet
\* set, click, clear, send the keys, read the value back and compare it with
\* keys[:max_length].  f is the driver call that faults in this poll.
WaitForKeysVerification(d, p, h, f, g) ==
  IF ~Found(d, f) THEN R("False", d, p, h, 0)
  ELSE
    LET fresh == ~p.max_length_set
        p1 == IF fresh THEN set_max_length(p, d, g) ELSE p
        h1 == [(IF fresh THEN Resolved(h, d, g) ELSE h) EXCEPT !.found = TRUE]
        h2 == h1
        d2 == [d EXCEPT !.value = <<>>]
        d3 == [d EXCEPT !.value = Typed(<<>>, cfg.keys, d.attr)]
        h3 == [h2 EXCEPT !.sends = @ + 1]
    IN IF ClickFaults(f) THEN R("False", d, p1, h2, 0)
       ELSE IF f = "clear" THEN R("False", d, p1, h2, 0)
       ELSE IF f = "send_keys" THEN R("False", d2, p1, h2, 0)
       ELSE IF f = "get_property" THEN R("False", d3, p1, h3, 0)
       ELSE R(Bool(d3.value = Slice(cfg.keys, p1.max_length.val)), d3, p1,
              [h3 EXCEPT !.quiet = @ + 1], 0)

\* src/driver: the same without a max length; the value is compared with the
\* whole key string.
WaitForKeysVerification_driver(d, p, h, f) ==
  IF ~Found(d, f) THEN R("False", d, p, h, 0)
  ELSE
    LET h2 == h
        d2 == [d EXCEPT !.value = <<>>]
        d3 == [d EXCEPT !.value = Typed(<<>>, cfg.keys, d.attr)]
        h3 == [h2 EXCEPT !.sends = @ + 1]
    IN IF ClickFaults(f) THEN R("False", d, p, h2, 0)
       ELSE IF f = "clear" THEN R("False", d, p, h2, 0)
       ELSE IF f = "send_keys" THEN R("False", d2, p, h2, 0)
       ELSE IF f = "get_property" THEN R("False", d3, p, h3, 0)
       ELSE R(Bool(d3.value = cfg.keys), d3, p, [h3 EXCEPT !.quiet = @ + 1], 0)

\* src/driver: no max length, and action.perform() is inside the loop over the
\* keys, one call for each key.  retain: the selenium in use leaves the
\* actions of a chain in place after perform(), so that the i-th call types
\* the first i keys again; otherwise perform() empties the chain.
RECURSIVE Prefixes(_, _)
Prefixes(keys, n) ==
  IF n = 0 THEN <<>> ELSE Prefixes(keys, n - 1) \o SubSeq(keys, 1, n)
PerformedPerKey(keys, retain) == IF retain THEN Prefixes(keys, Len(keys)) ELSE keys

WaitForKeysVerificationWithDelay_driver(d, p, h, f, retain) ==
  IF ~Found(d, f) THEN R("False", d, p, h, 0)
  ELSE
    LET d2 == [d EXCEPT !.value = <<>>]
        d3 == [d EXCEPT !.value = Typed(<<>>, PerformedPerKey(cfg.keys, retain), d.attr)]
        h3 == [h EXCEPT !.sends = @ + 1, !.performs = @ + Len(cfg.keys)]
    IN IF ClickFaults(f) THEN R("False", d, p, h, 0)
       ELSE IF f = "clear" THEN R("False", d, p, h, 0)
       ELSE IF f = "perform" THEN R("False", d2, p, [h EXCEPT !.performs = @ + 1], 0)
       ELSE IF f = "get_property" THEN R("False", d3, p, h3, 0)
       ELSE R(Bool(d3.value = cfg.keys), d3, p, [h3 EXCEPT !.quiet = @ + 1], 0)

\* src/pylibselenium: the keys go through one action chain, performed once.
\* self.keys is the argument as it was passed: `for key in self.keys` raises
\* TypeError on an int, after the field was clicked and cleared.
WaitForKeysVerificationWithDelay(d, p, h, f, g) ==
  IF ~Found(d, f) THEN R("False", d, p, h, 0)
  ELSE
    LET fresh == ~p.max_length_set
        p1 == IF fresh THEN set_max_length(p, d, g) ELSE p
        h1 == [(IF fresh THEN Resolved(h, d, g) ELSE h) EXCEPT !.found = TRUE]
        h2 == h1
        d2 == [d EXCEPT !.value = <<>>]
        d3 == [d EXCEPT !.value = Typed(<<>>, cfg.keys, d.attr)]
        h3 == [h2 EXCEPT !.sends = @ + 1, !.performs = @ + 1]
    IN IF ClickFaults(f) THEN R("False", d, p1, h2, 0)
       ELSE IF f = "clear" THEN R("False", d, p1, h2, 0)
       ELSE IF cfg.numeric THEN R("False", d2, p1, h2, 0)
       ELSE IF f = "perform" THEN R("False", d2, p1, [h2 EXCEPT !.performs = @ + 1], 0)
       ELSE IF f = "get_property" THEN R("False", d3, p1, h3, 0)
       ELSE R(Bool(d3.value = Slice(cfg.keys, p1.max_length.val)), d3, p1,
              [h3 EXCEPT !.quiet = @ + 1], 0)


\* The fault of the one class that stands where fault f stands in the other:
\* send_keys in WaitForKeysVerification, perform in the WithDelay class.
WithDelayFault(f) == IF f = "send_keys" THEN "perform" ELSE f

\* ------------------------------------------------------------ initial state
Alphabet == <<"a", "b", "c", "d", "e">>
KeySet == {SubSeq(Alphabet, 1, n) : n \in 1..MaxKeysLen}
\* A key string longer than the buffer _get_max_length adds to the length of
\* the value a field starts with.
LongKeys == [i \in 1..(LengthBuffer + 2) |-> "a"]
\* maxlength attributes a field of the session may carry.
AttrSet == {NoStr, Str(<<"2">>), Str(<<"x">>)}
Fallbacks == {None_, Some(1)}
Texts == {"", "a"}
Handles == <<"w1", "w2", "w3", "w4", "w5">>

NoText == [some |-> FALSE, val |-> ""]
NoHist == [clicks |-> 0, clickCalls |-> 0, sends |-> 0, quiet |-> 0,
           resolutions |-> 0, found |-> FALSE, fault |-> "none",
           opened |-> 0, closes |-> 0, closed |-> "", performs |-> 0]
\* __init__ of a predicate: the attributes the classes of wait.py set.
NewPredicate == [clicked |-> FALSE, max_length_set |-> FALSE, max_length |-> None_,
                 previous_text |-> NoText]
NoWait == [active |-> FALSE, elapsed |-> 0, polls |-> 0, falsy |-> 0,
           last |-> "False", timedOut |-> FALSE]
NewCall == [pc |-> 1, outcome |-> "running", ret |-> "None", exc |-> "",
            value |-> "None", rounds |-> 0, clock |-> 0, failed |-> FALSE,
            switched |-> FALSE, clicks |-> 0]
NoGml == [attrFault |-> FALSE, attr |-> NoStr, fallback |-> None_,
          propFault |-> FALSE, value |-> <<>>, out |-> None_]
\* The cookie file and its .tmp neighbour: "missing", "empty" (of size 0),
\* "other" (a pickle that is not a list), "partial" (a pickle cut short), or
\* the pickle of a list of cookies.
File(kind) == [kind |-> kind, cookies |-> <<>>]
Pickled(cookies) == [kind |-> "list", cookies |-> cookies]
\* CachedElement(driver_client, locator, max_retries, retry_delay): element is
\* None (0 here) or the rendering of the node that was located; gen is the
\* rendering now in the document. The other fields describe the call of
\* perform_action under way or last made: its local retries, how it ended,
\* the invocations of the action, those that completed, the find_element
\* calls that returned, the sleeps, the stale faults, the cache at the start
\* of the call and of the last attempt, and what the last attempt raised.
NoCached == [max_retries |-> 0, element |-> 0, gen |-> 1, pc |-> "idle",
             retries |-> 0, outcome |-> "none", calls |-> 0, actions |-> 0,
             done |-> 0, locates |-> 0, sleeps |-> 0, stales |-> 0, first |-> 0,
             was |-> 0, fault |-> "none"]
\* A wrapped function and one call of it: the wrapper, its arguments, how
\* many invocations of the function fail before one succeeds (forever: all
\* do), the position in the wrapper, its local attempt, the invocations
\* made, the seconds slept, the lines printed, how the call ended and with
\* which invocation's value.
NoRetry == [kind |-> "none", retries |-> 0, delay |-> 0, log |-> FALSE,
            fails |-> 0, forever |-> FALSE, pc |-> "idle", attempt |-> 0,
            calls |-> 0, slept |-> 0, printed |-> 0, outcome |-> "none", ret |-> 0]
\* ProfileClient before any call: no cookie, no cookie file.
NoJar == [session |-> {}, file |-> File("missing"), tmp |-> File("missing"),
          now |-> 1, calls |-> 0, last |-> "none", ret |-> "None", log |-> <<>>,
          fresh |-> FALSE, require_useful |-> FALSE, base_url |-> FALSE,
          clear_first |-> FALSE]

\* Methods that take a locator (the others take an element, an index or nothing).
LocatorOps == Ops \ {"maximize_window", "send_modifer_key",
  "click_element_and_wait_for_load", "find_window_handle_switch_to_it",
  "wait_for_element_to_disappear", "switch_to_latest_window",
  "find_window_handle_switch_to_it_close_previous"}
KeysOps == {"find_and_send_keys", "find_and_send_keys_with_delay"}

\* keys is the text of the keys argument: the argument itself when it is a
\* str, its decimal digits (what str(keys) gives) when it is an int, for which
\* numeric is set.
Cfg(variant, throw, op, p, never, index, keys, fallback) ==
  [variant |-> variant, throw |-> throw, op |-> op, pred |-> p, never |-> never,
   index |-> index, keys |-> keys, fallback |-> fallback, wait |-> DefaultWait,
   numeric |-> FALSE]

\* Calls of DriverClient methods; the client passes no max_length_fallback.
ClientCalls ==
  {Cfg(v, t, op, "", n, i, k, None_) :
     v \in Variants, t \in BOOLEAN, op \in Ops, n \in BOOLEAN,
     i \in 0..(MaxWindows - 1), k \in KeySet \cup {<<>>}}
\* Waits a caller builds around one predicate of wait.py.
DirectCalls ==
  {Cfg(v, FALSE, "until", p, n, i, k, fb) :
     v \in Variants, p \in Predicates \ {"presence_of_element_located",
                                         "element_to_be_clickable"},
     n \in BOOLEAN, i \in 0..(MaxWindows - 1), k \in KeySet \cup {<<>>, LongKeys},
     fb \in Fallbacks}

\* Waits on a keys predicate of src/pylibselenium that was handed an int.
NumericCalls ==
  {[Cfg("pylibselenium", FALSE, "until", p, FALSE, 0, <<"7">>, fb)
      EXCEPT !.numeric = TRUE] : p \in KeysPredicates, fb \in Fallbacks}

UsesKeys(c) ==
  c.op \in KeysOps \/ (c.op = "until" /\ c.pred \in KeysPredicates)
WindowPredicates == {"WindowHandleToBeAvailable",
  "WindowHandleToBeAvailableSwitchClosePrevious"}
ClosesWindows(c) ==
  c.op = "find_window_handle_switch_to_it_close_previous"
    \/ (c.op = "until" /\ c.pred = "WindowHandleToBeAvailableSwitchClosePrevious")
UsesIndex(c) ==
  c.op \in {"find_window_handle_switch_to_it", "switch_to_latest_window",
            "find_window_handle_switch_to_it_close_previous"}
    \/ (c.op = "until" /\ c.pred \in WindowPredicates)
TakesLocator(c) ==
  c.op \in LocatorOps
    \/ (c.op = "until" /\ c.pred \notin WindowPredicates
                                      \cup {"WaitForHtmlLoadAfterClickElement",
                                            "WaitForElementToBeRemoved"})
\* Arguments a call does not have are left at one value.
WellFormed(c) ==
  /\ (c.keys # <<>>) = UsesKeys(c)
  /\ c.keys = LongKeys => c.pred = "WaitForKeysVerification" /\ ~c.never
  /\ c.index # 0 => UsesIndex(c)
  /\ c.never => TakesLocator(c)
  /\ c.fallback.some => c.variant = "pylibselenium" /\ UsesKeys(c)

Calls == {c \in ClientCalls \cup DirectCalls \cup NumericCalls : WellFormed(c)}

\* The windows open when the call starts: switch_to_latest_window computes
\* its index from them.
InitWindows(c) ==
  IF c.op = "switch_to_latest_window" THEN {c.index + 1}
  ELSE IF ClosesWindows(c) THEN 1..MaxWindows ELSE {1}
\* The window that has focus when the call starts.
InitFocus(c, n) == IF ClosesWindows(c) THEN 1..n ELSE {1}

InitDom(c) ==
  UNION {{[present |-> ~c.never, enabled |-> TRUE, present2 |-> FALSE, text |-> "",
           value |-> v, attr |-> NoStr, handles |-> SubSeq(Handles, 1, n),
           focus |-> Handles[w]] :
            v \in IF UsesKeys(c) THEN {<<>>, <<"z">>} ELSE {<<>>},
            w \in InitFocus(c, n)} : n \in InitWindows(c)}

Init ==
  /\ cfg \in Calls
  /\ dom \in InitDom(cfg)
  /\ pred = NewPredicate
  /\ wait = NoWait
  /\ call = NewCall
  /\ hist = NoHist
  /\ gml = NoGml
  /\ jar = NoJar
  /\ ce = NoCached
  /\ rt = NoRetry


\* ------------------------------------------------- the except clause, return
\* What the except clause of the method under way makes of a failure of its
\* try body.
except_(c) ==
  LET m == Method(cfg.op)
      k == check_throw(cfg.variant, cfg.throw)
      c1 == [c EXCEPT !.failed = TRUE]
  IN CASE m.onError = "return_False" -> [c1 EXCEPT !.outcome = "returned", !.ret = "False"]
       [] m.onError = "print_exc" -> [c1 EXCEPT !.outcome = "returned", !.ret = "None"]
       [] m.onError = "propagate" ->
            [c1 EXCEPT !.outcome = "raised", !.exc = "TimeoutException"]
       [] OTHER ->
            IF k # "pass" THEN [c1 EXCEPT !.outcome = "raised", !.exc = k]
            ELSE IF m.loop = "once" THEN [c1 EXCEPT !.outcome = "returned", !.ret = "None"]
            ELSE [c1 EXCEPT !.pc = 1, !.rounds = @ + 1]

\* The method's try body ran to its end.
Return ==
  /\ call.outcome = "running" /\ call.pc > Len(Steps)
  /\ call' = IF Method(cfg.op).loop = "forever"
             THEN [call EXCEPT !.pc = 1, !.rounds = @ + 1]
             ELSE [call EXCEPT !.outcome = "returned",
                     !.ret = IF Method(cfg.op).ret = "value" THEN call.value
                             ELSE Method(cfg.op).ret]
  /\ UNCHANGED <<cfg, dom, pred, wait, hist, gml, jar, ce, rt>>

\* --------------------------------------------------------- the polling loop
\* WebDriverWait(driver, poll_time, poll_frequency).until(predicate): the
\* predicate instance is built, then polled while the time elapsed is below
\* the timeout, sleeping poll_frequency after each poll that is not satisfied;
\* the first truthy value ends the wait and is its result; leaving the loop
\* unsatisfied raises the timeout error.
StartWait ==
  /\ AtStep /\ CurStep.kind = "wait" /\ ~wait.active
  /\ call.rounds < MaxRounds
  /\ wait' = [NoWait EXCEPT !.active = TRUE]
  /\ pred' = NewPredicate
  /\ hist' = NoHist
  /\ UNCHANGED <<cfg, dom, call, gml, jar, ce, rt>>

Polling(p) ==
  /\ AtStep /\ CurStep.kind = "wait" /\ CurStep.what = p
  /\ wait.active /\ wait.elapsed < PollTime

\* until(predicate), one pass of its loop; an exception of the predicate
\* that is not among the ignored ones (res = "raise") leaves until at once.
until(r) ==
  /\ dom' = r.dom
  /\ pred' = r.pred
  /\ hist' = r.hist
  /\ wait' = IF r.res = "raise"
             THEN [wait EXCEPT !.active = FALSE, !.polls = @ + 1, !.last = r.res,
                               !.elapsed = @ + r.dur]
             ELSE IF Truthy(r.res)
             THEN [wait EXCEPT !.active = FALSE, !.polls = @ + 1, !.last = r.res,
                               !.elapsed = @ + r.dur]
             ELSE [wait EXCEPT !.polls = @ + 1, !.falsy = @ + 1, !.last = r.res,
                               !.elapsed = @ + r.dur + PollFrequency]
  /\ call' = LET c == [call EXCEPT !.clicks = @ + r.hist.clicks - hist.clicks]
             IN IF r.res = "raise" THEN except_(c)
                ELSE IF Truthy(r.res)
                THEN [c EXCEPT !.pc = @ + 1, !.value = r.res, !.clock = @ + r.dur]
                ELSE [c EXCEPT !.clock = @ + r.dur + PollFrequency]
  /\ UNCHANGED <<cfg, gml, jar, ce, rt>>

Timeout ==
  /\ AtStep /\ CurStep.kind = "wait" /\ wait.active
  /\ wait.elapsed >= PollTime
  /\ wait' = [wait EXCEPT !.active = FALSE, !.timedOut = TRUE]
  /\ call' = except_(call)
  /\ UNCHANGED <<cfg, dom, pred, hist, gml, jar, ce, rt>>

\* One poll of each predicate class.
Poll_presence_of_element_located ==
  /\ Polling("presence_of_element_located")
  /\ until(presence_of_element_located(dom, pred, hist))
Poll_element_to_be_clickable ==
  /\ Polling("element_to_be_clickable")
  /\ until(element_to_be_clickable(dom, pred, hist))
Poll_PresenceOfAllElementsLocatedIfNotEmpty ==
  /\ Polling("PresenceOfAllElementsLocatedIfNotEmpty")
  /\ \E f \in {"none", "find"} :
       until(PresenceOfAllElementsLocatedIfNotEmpty(dom, pred, hist, f))
Poll_WaitForElementToBeStale ==
  /\ Polling("WaitForElementToBeStale")
  /\ \E f \in {"none", "find"} :
       LET g == IF cfg.op = "wait_for_element_to_disappear" THEN "unpack" ELSE f
       IN until(Noting(WaitForElementToBeStale(dom, pred, hist, g), g))
Poll_WindowHandleToBeAvailable ==
  /\ Polling("WindowHandleToBeAvailable")
  /\ \E f \in {"none", "window_handles"} :
       until(Noting(WindowHandleToBeAvailable(dom, pred, hist, f), f))
Poll_WindowHandleToBeAvailableSwitchClosePrevious ==
  /\ Polling("WindowHandleToBeAvailableSwitchClosePrevious")
  /\ \E f \in {"none", "window_handles", "close", "switch"} :
       IF cfg.variant = "driver"
       THEN until(Noting(WindowHandleToBeAvailableSwitchClosePrevious_driver(
                           dom, pred, hist, f), f))
       ELSE until(Noting(WindowHandleToBeAvailableSwitchClosePrevious(
                           dom, pred, hist, f), f))
Poll_WaitElementToBeClickable ==
  /\ Polling("WaitElementToBeClickable")
  /\ \E f \in {"none", "click", "click_landed"} :
       IF cfg.variant = "driver"
       THEN until(WaitElementToBeClickable_driver(dom, pred, hist, f))
       ELSE until(WaitElementToBeClickable(dom, pred, hist, f))
Poll_WaitForValueToChange ==
  /\ Polling("WaitForValueToChange")
  /\ \E f \in {"none", "find", "text"} :
       until(Noting(WaitForValueToChange(dom, pred, hist, f), f))
Poll_WaitForHtmlLoadAfterClick ==
  /\ Polling("WaitForHtmlLoadAfterClick")
  /\ \E f \in {"none", "find", "click", "click_landed"} :
       until(Noting(WaitForHtmlLoadAfterClick(dom, pred, hist, f), f))
Poll_WaitForHtmlLoadAfterClickElement ==
  /\ Polling("WaitForHtmlLoadAfterClickElement")
  /\ \E f \in {"none", "click", "click_landed", "is_enabled"} :
       until(WaitForHtmlLoadAfterClickElement(dom, pred, hist, f))
Poll_WaitForLoadAfterClick ==
  /\ Polling("WaitForLoadAfterClick")
  /\ \E f \in {"none", "find", "click", "click_landed", "is_enabled"} :
       until(Noting(WaitForLoadAfterClick(dom, pred, hist, f), f))
Poll_WaitForElementAfterClick ==
  /\ Polling("WaitForElementAfterClick")
  /\ \E f \in {"none", "find", "click", "click_landed", "find2"} :
       until(Noting(WaitForElementAfterClick(dom, pred, hist, f), f))
Poll_WaitForKeysVerification ==
  /\ Polling("WaitForKeysVerification")
  /\ \E f \in {"none", "find", "click", "clear", "send_keys", "get_property"} :
       IF cfg.variant = "driver"
       THEN until(WaitForKeysVerification_driver(dom, pred, hist, f))
       ELSE \E g \in SUBSET {"attr", "prop"} :
              until(WaitForKeysVerification(dom, pred, hist, f, g))
Poll_WaitForElementReadyState ==
  /\ Polling("WaitForElementReadyState")
  /\ \E f \in {"none", "find", "execute_script"}, state \in {"loading", "complete"} :
       until(Noting(WaitForElementReadyState(dom, pred, hist, f, state), f))
Poll_WaitForElementToBeRemoved ==
  /\ Polling("WaitForElementToBeRemoved")
  /\ \E f \in {"none", "is_enabled"}, gone \in BOOLEAN :
       until(Noting(WaitForElementToBeRemoved(dom, pred, hist, f, gone), f))
Poll_WaitForLoadAfter ==
  /\ Polling("WaitForLoadAfter")
  /\ \E f \in {"none", "find", "is_enabled"} :
       until(Noting(WaitForLoadAfter(dom, pred, hist, f), f))
Poll_WaitForKeysVerificationWithDelay ==
  /\ Polling("WaitForKeysVerificationWithDelay")
  /\ \E f \in {"none", "find", "click", "clear", "perform", "get_property"} :
       IF cfg.variant = "driver"
       THEN \E retain \in BOOLEAN :
              until(WaitForKeysVerificationWithDelay_driver(dom, pred, hist, f, retain))
       ELSE \E g \in SUBSET {"attr", "prop"} :
              until(WaitForKeysVerificationWithDelay(dom, pred, hist, f, g))


\* --------------------------------------------- driver calls in a try body
DriverStep(what) == AtStep /\ CurStep.kind = "driver" /\ CurStep.what = what

\* self.driver.maximize_window()
Call_maximize_window ==
  /\ DriverStep("maximize_window")
  /\ \E fault \in BOOLEAN :
       call' = IF fault THEN except_(call) ELSE [call EXCEPT !.pc = @ + 1]
  /\ UNCHANGED <<cfg, dom, pred, wait, hist, gml, jar, ce, rt>>

\* self.driver.find_element(By.TAG_NAME, tag)
Call_find_element ==
  /\ DriverStep("find_element")
  /\ \E fault \in BOOLEAN :
       call' = IF fault \/ ~dom.present THEN except_(call)
               ELSE [call EXCEPT !.pc = @ + 1, !.value = "element"]
  /\ UNCHANGED <<cfg, dom, pred, wait, hist, gml, jar, ce, rt>>

\* ActionChains(self.driver).key_down(key).key_up(key).perform()
Call_perform ==
  /\ DriverStep("perform")
  /\ \E fault \in BOOLEAN :
       call' = IF fault THEN except_(call) ELSE [call EXCEPT !.pc = @ + 1]
  /\ UNCHANGED <<cfg, dom, pred, wait, hist, gml, jar, ce, rt>>

\* DriverClient.click_element(element): a method with its own try/except and
\* check_throw, called inside the caller's try body.
click_element ==
  /\ DriverStep("click_element")
  /\ \E fault \in BOOLEAN :
       call' = IF ~fault /\ dom.present THEN [call EXCEPT !.pc = @ + 1]
               ELSE IF check_throw(cfg.variant, cfg.throw) = "pass"
                    THEN [call EXCEPT !.pc = @ + 1, !.failed = TRUE]
               ELSE except_(call)
  /\ UNCHANGED <<cfg, dom, pred, wait, hist, gml, jar, ce, rt>>

\* len(self.driver.window_handles) - 1: the call's index (see InitWindows).
Call_window_handles ==
  /\ DriverStep("window_handles")
  /\ \E fault \in BOOLEAN :
       call' = IF fault THEN except_(call) ELSE [call EXCEPT !.pc = @ + 1]
  /\ UNCHANGED <<cfg, dom, pred, wait, hist, gml, jar, ce, rt>>

\* self.driver.switch_to.window(window), window being the wait's result.
Call_switch_to_window ==
  /\ DriverStep("switch_to_window")
  /\ \E fault \in BOOLEAN :
       IF fault \/ ~InSeq(call.value, dom.handles)
       THEN call' = except_(call) /\ dom' = dom
       ELSE /\ call' = [call EXCEPT !.pc = @ + 1, !.switched = TRUE]
            /\ dom' = [dom EXCEPT !.focus = call.value]
  /\ UNCHANGED <<cfg, pred, wait, hist, gml, jar, ce, rt>>

\* ---------------------------------------------------------------- the page
\* What the page and the browser do on their own while a call is under way.
Reads(ps) == AtStep /\ wait.active /\ CurStep.what \in ps

EnvLocator ==
  /\ AtStep /\ (wait.active \/ CurStep.kind = "driver")
  /\ ~cfg.never /\ (TakesLocator(cfg)
                    \/ cfg.op \in {"click_element_and_wait_for_load",
                                   "wait_for_element_to_disappear"}
                    \/ cfg.pred \in {"WaitForHtmlLoadAfterClickElement",
                                     "WaitForElementToBeRemoved"})
  /\ dom' = [dom EXCEPT !.present = ~@]
  /\ UNCHANGED <<cfg, pred, wait, call, hist, gml, jar, ce, rt>>

EnvEnabled ==
  /\ Reads({"element_to_be_clickable", "WaitForLoadAfterClick",
            "WaitForHtmlLoadAfterClickElement", "WaitElementToBeClickable",
            "WaitForLoadAfter"})
  /\ dom' = [dom EXCEPT !.enabled = ~@]
  /\ UNCHANGED <<cfg, pred, wait, call, hist, gml, jar, ce, rt>>

EnvSecond ==
  /\ Reads({"WaitForElementAfterClick"})
  /\ dom' = [dom EXCEPT !.present2 = ~@]
  /\ UNCHANGED <<cfg, pred, wait, call, hist, gml, jar, ce, rt>>

EnvText ==
  /\ Reads({"WaitForValueToChange"})
  /\ \E t \in Texts \ {dom.text} : dom' = [dom EXCEPT !.text = t]
  /\ UNCHANGED <<cfg, pred, wait, call, hist, gml, jar, ce, rt>>

EnvAttr ==
  /\ Reads(KeysPredicates)
  /\ \E a \in AttrSet \ {dom.attr} : dom' = [dom EXCEPT !.attr = a]
  /\ UNCHANGED <<cfg, pred, wait, call, hist, gml, jar, ce, rt>>

\* The page opens a window: a handle the session has not had yet.
EnvWindow ==
  /\ Reads(WindowPredicates)
  /\ Len(dom.handles) + hist.closes < MaxWindows
  /\ dom' = [dom EXCEPT !.handles = Append(@, Handles[Len(@) + hist.closes + 1])]
  /\ hist' = [hist EXCEPT !.opened = @ + 1]
  /\ UNCHANGED <<cfg, pred, wait, call, gml, jar, ce, rt>>

Env == EnvLocator \/ EnvEnabled \/ EnvSecond \/ EnvText \/ EnvAttr \/ EnvWindow

\* The steps of the client itself.
Step ==
  \/ StartWait \/ Timeout \/ Return
  \/ Poll_presence_of_element_located \/ Poll_element_to_be_clickable
  \/ Poll_PresenceOfAllElementsLocatedIfNotEmpty \/ Poll_WaitForElementToBeStale
  \/ Poll_WindowHandleToBeAvailable \/ Poll_WaitElementToBeClickable
  \/ Poll_WindowHandleToBeAvailableSwitchClosePrevious
  \/ Poll_WaitForValueToChange \/ Poll_WaitForHtmlLoadAfterClick
  \/ Poll_WaitForHtmlLoadAfterClickElement \/ Poll_WaitForLoadAfterClick
  \/ Poll_WaitForElementAfterClick \/ Poll_WaitForKeysVerification
  \/ Poll_WaitForKeysVerificationWithDelay
  \/ Poll_WaitForElementReadyState \/ Poll_WaitForElementToBeRemoved
  \/ Poll_WaitForLoadAfter
  \/ Call_maximize_window \/ Call_find_element \/ Call_perform
  \/ click_element \/ Call_switch_to_window \/ Call_window_handles

Next == Step \/ Env

Spec == Init /\ [][Next]_vars
\* The client is one thread: while a call is under way it takes its next step.
FairSpec == Spec /\ WF_vars(Step)

\* ----------------------------------------------- _get_max_length on its own
AttrAlphabet == {" ", "-", "0", "2", "x"}
AttrTexts ==
  {NoStr} \cup {Str(t) : t \in UNION {[1..n -> AttrAlphabet] : n \in 0..MaxAttrLen}}
\* Field contents: empty, short, and long enough for the cap to apply.
GmlValues == {<<>>, <<"z", "z">>, [i \in 1..(LengthCap - LengthBuffer + 1) |-> "z"]}

InitMaxLength ==
  /\ gml \in {[attrFault |-> af, attr |-> a, fallback |-> fb, propFault |-> pf,
               value |-> v, out |-> None_] :
                af \in BOOLEAN, a \in AttrTexts, fb \in {None_, Some(0), Some(7)},
                pf \in BOOLEAN, v \in GmlValues}
  /\ cfg = Cfg("pylibselenium", FALSE, "until", "WaitForKeysVerification", FALSE, 0,
               <<"a">>, gml.fallback)
  /\ dom = [present |-> TRUE, enabled |-> TRUE, present2 |-> FALSE, text |-> "",
            value |-> gml.value, attr |-> gml.attr, handles |-> <<Handles[1]>>,
            focus |-> Handles[1]]
  /\ pred = NewPredicate
  /\ wait = NoWait
  /\ call = [NewCall EXCEPT !.outcome = "returned"]
  /\ hist = NoHist
  /\ jar = NoJar
  /\ ce = NoCached
  /\ rt = NoRetry

ApplyGetMaxLength ==
  /\ ~gml.out.some
  /\ gml' = [gml EXCEPT !.out =
       Some(_get_max_length(gml.attrFault, gml.attr, gml.fallback, gml.propFault,
                            gml.value))]
  /\ UNCHANGED <<cfg, dom, pred, wait, call, hist, jar, ce, rt>>

NextMaxLength == ApplyGetMaxLength
SpecMaxLength == InitMaxLength /\ [][NextMaxLength]_vars

\* ------------------------------------------------- profile/client.py: cookies
\* Timestamps are counted in half seconds, so that a float expiry can lie
\* between two whole seconds; int(x) cuts a float down to a whole second.
\* A cookie is its name (a string of characters) and its expiry: absent (a
\* session cookie), an int or a finite float, as a browser reports them.
Expiries == {[kind |-> "absent", val |-> 0], [kind |-> "int", val |-> 2],
             [kind |-> "float", val |-> 3]}
CookieNames == << <<"S", "I", "D">>, <<"p", "r", "e", "f">>,
                 <<"x", "j", "w", "t">>, <<"t", "z">> >>

AUTH_COOKIE_HINTS ==
  { <<"s", "e", "s", "s", "i", "o", "n">>, <<"a", "u", "t", "h">>, <<"s", "i", "d">>,
    <<"s", "s", "i", "d">>, <<"t", "o", "k", "e", "n">>, <<"j", "w", "t">> }

\* str.lower(), on the letters cookie names are written with here.
LowerChar(c) ==
  CASE c = "S" -> "s" [] c = "I" -> "i" [] c = "D" -> "d" [] OTHER -> c
Lower(name) == [i \in 1..Len(name) |-> LowerChar(name[i])]
\* h in name
Contains(name, h) ==
  \E i \in 0..(Len(name) - Len(h)) : SubSeq(name, i + 1, i + Len(h)) = h

\* fresh(c) inside _cookies_useful, now being the clock reading.
fresh(c, now) ==
  IF c.expiry.kind = "absent" THEN TRUE
  ELSE IF c.expiry.kind = "str" THEN FALSE
  ELSE c.expiry.val > now

looks_auth(c) == \E h \in AUTH_COOKIE_HINTS : Contains(Lower(c.name), h)

_cookies_useful(cookies, now) ==
  /\ cookies # <<>>
  /\ \E i \in 1..Len(cookies) : fresh(cookies[i], now)
  /\ \E i \in 1..Len(cookies) : looks_auth(cookies[i])

\* int() of a finite float; the expiry is left alone when it is not a float.
_coerce_expiry_int(c) ==
  IF c.expiry.kind = "float"
  THEN [c EXCEPT !.expiry = [kind |-> "int", val |-> 2 * (@.val \div 2)]]
  ELSE c

\* driver.get_cookies(): the cookies of the session, one for each name.
get_cookies(session) ==
  LET held == SelectSeq(CookieNames, LAMBDA n : \E c \in session : c.name = n)
  IN [i \in 1..Len(held) |-> CHOOSE c \in session : c.name = held[i]]
\* driver.add_cookie(c): a cookie of the same name is replaced.
add_cookie(session, c) == {x \in session : x.name # c.name} \cup {c}

\* One call the method made on the driver or the file system: its name, the
\* position of the cookie it was about (0 for none), whether it returned.
L(name, arg, ok) == [call |-> name, arg |-> arg, ok |-> ok]
\* The calls names, made in this order, the one named f raising.
Log(names, f) == [i \in 1..Len(names) |-> L(names[i], 0, names[i] # f)]

\* The outcome of one call: the jar after it, with the call on record: its
\* value and the calls it made.
Returned(j, op, ret, log) ==
  [j EXCEPT !.calls = @ + 1, !.last = op, !.ret = Bool(ret), !.log = log]
\* A step that is no call: the record of the last call is dropped.
NoCall(j, what) ==
  [j EXCEPT !.last = what, !.ret = "None", !.log = <<>>, !.fresh = FALSE,
            !.require_useful = FALSE, !.base_url = FALSE, !.clear_first = FALSE]

\* The dump, had it written the cookie file itself and not a .tmp file.
dump_cookies_to_file_in_place(j, require_useful, f) ==
  LET cookies == get_cookies(j.session)
      j0 == [NoCall(j, "dump") EXCEPT !.require_useful = require_useful]
      writes == ~require_useful \/ _cookies_useful(cookies, j.now)
  IN IF writes /\ f = "pickle.dump"
     THEN Returned([j0 EXCEPT !.file = File("partial")], "dump", FALSE,
                   Log(<<"get_cookies", "open", "pickle.dump">>, f))
     ELSE IF writes /\ f = "none"
     THEN Returned([j0 EXCEPT !.file = Pickled(cookies)], "dump", TRUE,
                   Log(<<"get_cookies", "open", "pickle.dump">>, f))
     ELSE Returned(j0, "dump", FALSE, Log(<<"get_cookies">>, f))

\* The dump, had it written whatever the session holds.
dump_cookies_to_file_unchecked(j, require_useful, f) ==
  LET j0 == [NoCall(j, "dump") EXCEPT !.require_useful = require_useful]
  IN IF f = "none"
     THEN Returned([j0 EXCEPT !.file = Pickled(get_cookies(j.session))], "dump", TRUE,
                   Log(<<"get_cookies", "open", "pickle.dump", "os.replace">>, f))
     ELSE Returned(j0, "dump", FALSE, Log(<<"get_cookies">>, f))

\* dump_cookies_to_file(path_str, require_useful); f names the call that
\* raises: get_cookies, open, pickle.dump (the .tmp file is left cut short)
\* or os.replace (the .tmp file is left complete).
dump_cookies_to_file(j, require_useful, f) ==
  LET cookies == get_cookies(j.session)
      j0 == [NoCall(j, "dump") EXCEPT !.require_useful = require_useful]
  IN IF f = "get_cookies" THEN Returned(j0, "dump", FALSE, Log(<<"get_cookies">>, f))
     ELSE IF require_useful /\ ~_cookies_useful(cookies, j.now)
     THEN Returned(j0, "dump", FALSE, Log(<<"get_cookies">>, f))
     ELSE IF f = "open"
     THEN Returned(j0, "dump", FALSE, Log(<<"get_cookies", "open">>, f))
     ELSE IF f = "pickle.dump"
     THEN Returned([j0 EXCEPT !.tmp = File("partial")], "dump", FALSE,
                   Log(<<"get_cookies", "open", "pickle.dump">>, f))
     ELSE IF f = "os.replace"
     THEN Returned([j0 EXCEPT !.tmp = Pickled(cookies)], "dump", FALSE,
                   Log(<<"get_cookies", "open", "pickle.dump", "os.replace">>, f))
     ELSE Returned([j0 EXCEPT !.file = Pickled(cookies), !.tmp = File("missing")],
                   "dump", TRUE,
                   Log(<<"get_cookies", "open", "pickle.dump", "os.replace">>, f))

\* for c in cookies: add_cookie(_coerce_expiry_int(dict(c))), skipping the
\* cookies the driver rejects (their positions are in rejected).
RECURSIVE AddAll(_, _, _, _)
AddAll(session, cookies, i, rejected) ==
  IF i > Len(cookies) THEN session
  ELSE AddAll(IF i \in rejected THEN session
              ELSE add_cookie(session, _coerce_expiry_int(cookies[i])),
              cookies, i + 1, rejected)
Adds(cookies, rejected) ==
  [i \in 1..Len(cookies) |-> L("add_cookie", i, i \notin rejected)]

\* The load, had its loop passed over the cookies that are not fresh.
load_cookies_from_file_fresh_only(j, base_url, clear_first, f, rejected) ==
  LET cookies == j.file.cookies
      stale == {i \in 1..Len(cookies) : ~fresh(cookies[i], j.now)}
      j0 == [NoCall(j, "load") EXCEPT !.fresh = (j.session = {}),
                                      !.base_url = base_url, !.clear_first = clear_first]
      j3 == [j0 EXCEPT !.session = AddAll(IF clear_first THEN {} ELSE @, cookies, 1,
                                         rejected \cup stale)]
  IN IF j.file.kind = "list" /\ _cookies_useful(cookies, j.now) /\ f = "none"
     THEN Returned(j3, "load", rejected # 1..Len(cookies), Adds(cookies, rejected))
     ELSE Returned(j0, "load", FALSE, <<>>)

\* The load, had it cleared the session before looking at the file.
load_cookies_from_file_clears_unchecked(j, base_url, clear_first, f, rejected) ==
  LET cookies == j.file.cookies
      j0 == [NoCall(j, "load") EXCEPT !.fresh = (j.session = {}),
                                      !.base_url = base_url, !.clear_first = clear_first]
      j2 == IF clear_first THEN [j0 EXCEPT !.session = {}] ELSE j0
      cleared == IF clear_first THEN Log(<<"delete_all_cookies">>, f) ELSE <<>>
      loaded_any == \E i \in 1..Len(cookies) : i \notin rejected
  IN IF j.file.kind = "list" /\ _cookies_useful(cookies, j.now) /\ f = "none"
     THEN Returned([j2 EXCEPT !.session = AddAll(@, cookies, 1, rejected)], "load",
                   loaded_any,
                   cleared \o Log(<<"pickle.load">>, f)
                     \o (IF base_url THEN Log(<<"get">>, f) ELSE <<>>)
                     \o Adds(cookies, rejected)
                     \o (IF loaded_any THEN Log(<<"refresh">>, f) ELSE <<>>))
     ELSE Returned(j2, "load", FALSE, cleared)

\* load_cookies_from_file(path_str, base_url, clear_first); f names the
\* call that raises: pickle.load, driver.get, delete_all_cookies or refresh.
load_cookies_from_file(j, base_url, clear_first, f, rejected) ==
  LET cookies == j.file.cookies
      j0 == [NoCall(j, "load") EXCEPT !.fresh = (j.session = {}),
                                      !.base_url = base_url, !.clear_first = clear_first]
      j2 == IF clear_first THEN [j0 EXCEPT !.session = {}] ELSE j0
      j3 == [j2 EXCEPT !.session = AddAll(@, cookies, 1, rejected)]
      loaded_any == \E i \in 1..Len(cookies) : i \notin rejected
      read == Log(<<"pickle.load">>, f)
      got == IF base_url THEN Log(<<"get">>, f) ELSE <<>>
      cleared == IF clear_first THEN Log(<<"delete_all_cookies">>, f) ELSE <<>>
      added == read \o got \o cleared \o Adds(cookies, rejected)
  IN IF j.file.kind \in {"missing", "empty"} THEN Returned(j0, "load", FALSE, <<>>)
     ELSE IF f = "pickle.load" \/ j.file.kind = "partial"
     THEN Returned(j0, "load", FALSE, Log(<<"pickle.load">>, "pickle.load"))
     ELSE IF j.file.kind # "list" THEN Returned(j0, "load", FALSE, read)
     ELSE IF ~_cookies_useful(cookies, j.now) THEN Returned(j0, "load", FALSE, read)
     ELSE IF base_url /\ f = "get" THEN Returned(j0, "load", FALSE, read \o got)
     ELSE IF clear_first /\ f = "delete_all_cookies"
     THEN Returned(j0, "load", FALSE, read \o got \o cleared)
     ELSE IF ~loaded_any THEN Returned(j3, "load", FALSE, added)
     ELSE Returned(j3, "load", f # "refresh", added \o Log(<<"refresh">>, f))

\* The cookie sets a session may hold: one cookie at most for each name.
Sessions ==
  {{[name |-> CookieNames[i], expiry |-> e[i]] : i \in ns} :
     ns \in SUBSET (1..MaxCookies), e \in [1..MaxCookies -> Expiries]}

InitCookies ==
  /\ jar \in {[NoJar EXCEPT !.session = ss, !.file = fl] :
               ss \in Sessions, fl \in {File("missing"), File("empty"), File("other")}}
  /\ cfg = Cfg("pylibselenium", FALSE, "maximize_window", "", FALSE, 0, <<>>, None_)
  /\ dom \in InitDom(cfg)
  /\ pred = NewPredicate
  /\ wait = NoWait
  /\ call = [NewCall EXCEPT !.outcome = "returned"]
  /\ hist = NoHist
  /\ gml = NoGml
  /\ ce = NoCached
  /\ rt = NoRetry

\* The driver or the file system can raise in a call the dump makes.
Call_dump_cookies_to_file ==
  /\ jar.calls < MaxCalls
  /\ LET useful == _cookies_useful(get_cookies(jar.session), jar.now)
     IN \E require_useful \in BOOLEAN :
          \E f \in {"none", "get_cookies"}
                  \cup (IF require_useful /\ ~useful THEN {}
                        ELSE {"open", "pickle.dump", "os.replace"}) :
            jar' = dump_cookies_to_file(jar, require_useful, f)
  /\ UNCHANGED <<cfg, dom, pred, wait, call, hist, gml, ce, rt>>

\* The driver can raise in, or reject a cookie of, a call the load makes.
Call_load_cookies_from_file ==
  /\ jar.calls < MaxCalls
  /\ LET passes == jar.file.kind = "list" /\ _cookies_useful(jar.file.cookies, jar.now)
         n == Len(jar.file.cookies)
     IN \E base_url \in BOOLEAN, clear_first \in BOOLEAN :
          \E f \in {"none"} \cup (IF jar.file.kind \in {"other", "list"} THEN {"pickle.load"} ELSE {})
                           \cup (IF passes /\ base_url THEN {"get"} ELSE {})
                           \cup (IF passes /\ clear_first THEN {"delete_all_cookies"} ELSE {})
                           \cup (IF passes THEN {"refresh"} ELSE {}) :
            \E rejected \in (IF passes /\ f \in {"none", "refresh"}
                             THEN SUBSET (1..n) \ (IF f = "refresh" THEN {1..n} ELSE {})
                             ELSE {{}}) :
              jar' = load_cookies_from_file(jar, base_url, clear_first, f, rejected)
  /\ UNCHANGED <<cfg, dom, pred, wait, call, hist, gml, ce, rt>>

\* A new browser session: no cookies.
NewSession ==
  /\ jar.session # {}
  /\ jar' = NoCall([jar EXCEPT !.session = {}], "new session")
  /\ UNCHANGED <<cfg, dom, pred, wait, call, hist, gml, ce, rt>>

\* datetime.now(timezone.utc).timestamp() grows between calls.
Tick ==
  /\ jar.now < MaxNow
  /\ jar' = NoCall([jar EXCEPT !.now = @ + 1], "tick")
  /\ UNCHANGED <<cfg, dom, pred, wait, call, hist, gml, ce, rt>>

NextCookies ==
  Call_dump_cookies_to_file \/ Call_load_cookies_from_file \/ NewSession \/ Tick
SpecCookies == InitCookies /\ [][NextCookies]_vars

\* ------------------------------------- dom/cachedelement: CachedElement
\* The three ways one pass of the loop of perform_action ends.
\* except StaleElementReferenceException: retries += 1, the cache is
\* cleared, time.sleep(retry_delay); the loop goes on.
OnStale(c) ==
  [c EXCEPT !.retries = @ + 1, !.element = 0, !.sleeps = @ + 1, !.stales = @ + 1,
            !.fault = "stale"]
\* Any other exception is not caught: it leaves perform_action.
Propagates(c, what) == [c EXCEPT !.pc = "idle", !.outcome = "raised", !.fault = what]
\* The action returned: return.
Completes(c) ==
  [c EXCEPT !.done = @ + 1, !.pc = "idle", !.outcome = "returned", !.fault = "none"]

\* get_element(): locate() when nothing is cached.
CachedElement_get_element(c) ==
  IF c.element = 0 THEN [c EXCEPT !.element = c.gen, !.locates = @ + 1] ELSE c

\* perform_action, had it kept the cached element on a stale fault.
perform_action_keeps_cache(c, f) ==
  IF ~(c.retries < c.max_retries)
  THEN [c EXCEPT !.pc = "idle", !.outcome = "returned", !.fault = "exhausted"]
  ELSE LET c1 == [CachedElement_get_element([c EXCEPT !.was = c.element]) EXCEPT !.actions = @ + 1]
       IN IF c1.element # c1.gen \/ f = "rerender"
          THEN [OnStale(c1) EXCEPT !.element = c1.element]
          ELSE Completes(c1)

\* perform_action, had it caught every exception.
perform_action_catches_all(c, f) ==
  IF ~(c.retries < c.max_retries)
  THEN [c EXCEPT !.pc = "idle", !.outcome = "returned", !.fault = "exhausted"]
  ELSE LET c1 == [CachedElement_get_element([c EXCEPT !.was = c.element]) EXCEPT !.actions = @ + 1]
       IN IF f = "action" THEN [OnStale(c1) EXCEPT !.fault = "action"]
          ELSE IF c1.element # c1.gen THEN OnStale(c1)
          ELSE Completes(c1)

\* One pass of `while retries < self.max_retries` in perform_action: the
\* test, then get_element() and the action inside the try. f names what
\* goes wrong: find_element raises (no such element), the action raises an
\* exception that is not a stale reference, or the node is rendered anew
\* between get_element() and the action. The action raises
\* StaleElementReferenceException when the element it is given is not the
\* rendering in the document. Leaving the loop by its test returns None.
perform_action(c, f) ==
  IF ~(c.retries < c.max_retries)
  THEN [c EXCEPT !.pc = "idle", !.outcome = "returned", !.fault = "exhausted"]
  ELSE LET c0 == [c EXCEPT !.was = c.element]
       IN IF c.element = 0 /\ f = "find_element" THEN Propagates(c0, "find_element")
          ELSE LET c1 == [CachedElement_get_element(c0) EXCEPT
                            !.gen = IF f = "rerender" THEN @ + 1 ELSE @,
                            !.actions = @ + 1]
               IN IF c1.element # c1.gen THEN OnStale(c1)
                  ELSE IF f = "action" THEN Propagates(c1, "action")
                  ELSE Completes(c1)

\* CachedElement(driver_client, locator, max_retries, retry_delay)
InitCached ==
  /\ ce \in {[NoCached EXCEPT !.max_retries = n] : n \in 0..MaxRetries}
  /\ cfg = Cfg("pylibselenium", FALSE, "maximize_window", "", FALSE, 0, <<>>, None_)
  /\ dom \in InitDom(cfg)
  /\ pred = NewPredicate
  /\ wait = NoWait
  /\ call = [NewCall EXCEPT !.outcome = "returned"]
  /\ hist = NoHist
  /\ gml = NoGml
  /\ jar = NoJar
  /\ rt = NoRetry

\* click() or send_keys(keys): perform_action is entered, retries = 0.
Call_perform_action ==
  /\ ce.pc = "idle" /\ ce.calls < MaxActs
  /\ ce' = [ce EXCEPT !.pc = "loop", !.retries = 0, !.outcome = "none",
                      !.calls = @ + 1, !.actions = 0, !.done = 0, !.locates = 0,
                      !.sleeps = 0, !.stales = 0, !.first = ce.element,
                      !.was = ce.element, !.fault = "none"]
  /\ UNCHANGED <<cfg, dom, pred, wait, call, hist, gml, jar, rt>>

Loop_perform_action ==
  /\ ce.pc = "loop"
  /\ \E f \in {"none", "find_element", "action", "rerender"} :
       /\ f = "rerender" => ce.gen < MaxRenders
       /\ f # "none" => ce.retries < ce.max_retries
       /\ f = "find_element" => ce.element = 0
       /\ ce' = perform_action(ce, f)
  /\ UNCHANGED <<cfg, dom, pred, wait, call, hist, gml, jar, rt>>

\* The page renders the node anew: references to the old rendering are stale.
Rerender ==
  /\ ce.gen < MaxRenders
  /\ ce' = [ce EXCEPT !.gen = @ + 1]
  /\ UNCHANGED <<cfg, dom, pred, wait, call, hist, gml, jar, rt>>

NextCached == Call_perform_action \/ Loop_perform_action \/ Rerender
SpecCached == InitCached /\ [][NextCached]_vars

\* ------------------------------------------------------- driver/retry.py
\* Counters stop growing at these values, reached only by a function that
\* fails forever.
CallCap == MaxFails + 2
SleepCap == CallCap * MaxDelay
\* The next invocation of the wrapped function raises.
Fails(r) == r.forever \/ r.calls < r.fails
\* func(*args, **kwargs) was invoked once more.
Invoked(r) == [r EXCEPT !.calls = Min(@ + 1, CallCap)]
\* sleep(delay)
Slept(r) == [r EXCEPT !.slept = Min(@ + r.delay, SleepCap)]
\* return func(...): the value of the invocation just made.
Returns(r) == [r EXCEPT !.pc = "idle", !.outcome = "returned", !.ret = r.calls]
\* The exception of the invocation just made leaves the wrapper.
Raises(r) == [r EXCEPT !.pc = "idle", !.outcome = "raised"]

\* newfn of retry(retries, delay), one step of it: at "while", the loop test
\* and the try (or, the test failing, the return after the loop); at
\* "except", the except clause: sleep, attempt += 1, return func(...).
retry(r) ==
  IF r.pc = "while"
  THEN IF r.attempt < r.retries
       THEN IF Fails(r) THEN [Invoked(r) EXCEPT !.pc = "except"]
            ELSE Returns(Invoked(r))
       ELSE IF Fails(r) THEN Raises(Invoked(r)) ELSE Returns(Invoked(r))
  ELSE LET r1 == [Slept(r) EXCEPT !.attempt = @ + 1]
       IN IF Fails(r1) THEN Raises(Invoked(r1)) ELSE Returns(Invoked(r1))

\* The wrapper, had it given up at the first failure.
retry_until_successful_once(r) ==
  IF Fails(r) THEN Raises(Invoked(r)) ELSE Returns(Invoked(r))

\* wrapper of retry_until_successful(f, delay, log), one pass of `while
\* True`: return f(...), or print (with log) and sleep.
retry_until_successful(r) ==
  IF Fails(r)
  THEN Slept([Invoked(r) EXCEPT
                !.printed = IF r.log THEN Min(@ + 1, CallCap) ELSE @])
  ELSE Returns(Invoked(r))

\* @retry(retries, delay) or @retry_until_successful(delay, log) on a function.
InitRetry ==
  /\ rt \in {[NoRetry EXCEPT !.kind = "retry", !.retries = n, !.delay = d] :
               n \in 0..MaxRetries, d \in 0..MaxDelay}
         \cup {[NoRetry EXCEPT !.kind = "retry_until_successful", !.delay = d, !.log = l] :
               d \in 0..MaxDelay, l \in BOOLEAN}
  /\ cfg = Cfg("pylibselenium", FALSE, "maximize_window", "", FALSE, 0, <<>>, None_)
  /\ dom \in InitDom(cfg)
  /\ pred = NewPredicate
  /\ wait = NoWait
  /\ call = [NewCall EXCEPT !.outcome = "returned"]
  /\ hist = NoHist
  /\ gml = NoGml
  /\ jar = NoJar
  /\ ce = NoCached

\* The wrapped function is called; how many of its invocations fail is up
\* to the function.
Call_wrapped ==
  /\ rt.pc = "idle" /\ rt.outcome = "none"
  /\ \E fails \in 0..MaxFails, forever \in BOOLEAN :
       /\ forever => fails = 0
       /\ rt' = [rt EXCEPT !.fails = fails, !.forever = forever, !.pc = "while"]
  /\ UNCHANGED <<cfg, dom, pred, wait, call, hist, gml, jar, ce>>

Step_retry ==
  /\ rt.kind = "retry" /\ rt.pc \in {"while", "except"}
  /\ rt' = retry(rt)
  /\ UNCHANGED <<cfg, dom, pred, wait, call, hist, gml, jar, ce>>

Step_retry_until_successful ==
  /\ rt.kind = "retry_until_successful" /\ rt.pc = "while"
  /\ rt' = retry_until_successful(rt)
  /\ UNCHANGED <<cfg, dom, pred, wait, call, hist, gml, jar, ce>>

StepRetry == Step_retry \/ Step_retry_until_successful
NextRetry == Call_wrapped \/ StepRetry
SpecRetry == InitRetry /\ [][NextRetry]_vars
\* The wrapper runs in the caller's thread: it takes its next step.
FairRetry == SpecRetry /\ WF_vars(StepRetry)

\* --------------------------------------------------------------- properties
Pylib == cfg.variant = "pylibselenium"
Done == call.outcome # "running"
Sentinels == {"None", "False"}
\* The two methods whose try body sits inside a loop of its own.
Endless == {"click_chain_elements_infinitely", "check_element_for_value_change_forever"}
\* Methods whose wait is satisfied by the absence of the element, or that make
\* one driver call without a wait.
AtOnce == {"click_and_wait_for_load", "click_and_wait_for_html_load",
  "wait_for_element_to_disappear_by_xpath", "get_element_by_tag_name"}
\* A find/click/wait method called with throw disabled on a locator that
\* never resolves.
Unresolvable == cfg.never /\ ~cfg.throw /\ cfg.op \in LocatorOps
\* Time the last poll of the method's wait may itself take.
PollCost ==
  IF cfg.op # "wait_to_click_element" THEN 0
  ELSE IF Pylib THEN cfg.wait ELSE cfg.wait + cfg.wait
\* A maxlength attribute Python's int() reads as a positive integer.
PositiveInt(a) == a.some /\ strip(a.str) # <<>> /\ int(a.str).ok /\ int(a.str).val > 0

\* C1 (as stated): with throw disabled and a locator that never resolves,
\* every find/click/wait method, the two endless ones included, does not
\* raise, has returned a sentinel once its wait has timed out, and has spent
\* at most poll_time plus one poll_frequency.
C1_AlwaysTimesOutAndReturns ==
  (Unresolvable /\ Pylib) =>
    /\ call.outcome # "raised"
    /\ wait.timedOut => call.outcome = "returned" /\ call.ret \in Sentinels
    /\ call.clock <= PollTime + PollFrequency

C1_Bounded ==
  Unresolvable =>
    /\ cfg.op \notin Endless => call.clock <= PollTime + PollFrequency + PollCost
    /\ (Done /\ cfg.op \notin AtOnce) => wait.timedOut /\ call.clock >= PollTime
    /\ (Pylib \/ Method(cfg.op).onError # "check_throw") =>
         /\ call.outcome # "raised"
         /\ call.outcome = "returned" => call.ret \in Sentinels
    /\ (Pylib /\ cfg.op \in Endless) => call.outcome = "running"

\* C1 (amended): with throw disabled and a locator that never resolves, every
\* find/click/wait method other than click_chain_elements_infinitely and
\* check_element_for_value_change(forever=True) terminates, having spent at
\* most poll_time plus one poll_frequency (plus the time one poll of
\* wait_to_click_element itself takes), and not before poll_time unless its wait is
\* satisfied by absence; in the pylibselenium variant, and in every method
\* that does not go through check_throw, it returns None or False and does not
\* raise; the two endless methods of the pylibselenium variant never return.
C1_TerminatesUnlessEndless ==
  /\ []C1_Bounded
  /\ ((Unresolvable /\ cfg.op \notin Endless) ~> Done)

\* C1 witness: get_element on a locator that never resolves has timed out at
\* poll_time and returned None.
C1_TimedOutAndReturned ==
  /\ Unresolvable /\ Pylib /\ cfg.op = "get_element"
  /\ wait.timedOut /\ wait.polls >= 2 /\ call.clock >= PollTime
  /\ call.outcome = "returned" /\ call.ret = "None"

\* C2: whenever a method that reports through check_throw ends by raising,
\* throw was enabled and the exception is the Error handed to check_throw;
\* in both variants.
C2_LogOrRaise ==
  (cfg.op \in Ops /\ Method(cfg.op).onError = "check_throw" /\ call.outcome = "raised") =>
    (cfg.throw /\ call.exc = "Error")

\* C3: with throw enabled, every DriverClient method whose driver call or wait
\* failed ends by raising Error.
C3_UniformToggle ==
  (Pylib /\ cfg.op \in Ops /\ cfg.throw /\ call.failed /\ Done) =>
    (call.outcome = "raised" /\ call.exc = "Error")

\* C4: a wait ends without timing out only on the first truthy value its
\* predicate returns, and that value is the wait's result; once the wait has
\* ended its predicate instance is not polled again; a wait times out only
\* at or after poll_time with every poll falsy, and then yields no value: the
\* method's except clause runs (a bare wait raises TimeoutException).
\* get_elements_until_none returns the wait's value, or None after a timeout;
\* find_window_handle_switch_to_it switches to the wait's value.
C4_FirstTruthyOrTimeout ==
  [][ /\ (wait.active /\ ~wait'.active /\ ~wait'.timedOut) =>
           /\ Truthy(wait'.last) /\ call'.value = wait'.last
           /\ wait.falsy = wait.polls /\ wait'.polls = wait.polls + 1
      /\ (~wait.active /\ ~wait'.active) => (wait'.polls = wait.polls /\ pred' = pred)
      /\ (wait'.timedOut /\ ~wait.timedOut) =>
           /\ wait.elapsed >= PollTime /\ wait.falsy = wait.polls /\ wait.polls >= 1
           /\ call'.failed /\ call'.value = call.value
           /\ cfg.op = "until" =>
                (call'.outcome = "raised" /\ call'.exc = "TimeoutException")
      /\ (cfg.op = "get_elements_until_none" /\ call.outcome = "running"
            /\ call'.outcome = "returned") =>
           call'.ret = IF wait'.timedOut THEN "None" ELSE wait'.last
      /\ (call'.switched /\ ~call.switched) =>
           (~wait.timedOut /\ Truthy(wait.last) /\ dom'.focus = wait.last)
    ]_vars

\* C4 witness: get_elements_until_none has returned the elements its wait
\* found after polls that found none.
C4_ResolvedAfterFalsyPolls ==
  /\ cfg.op = "get_elements_until_none" /\ call.outcome = "returned"
  /\ ~wait.timedOut /\ wait.falsy >= 1 /\ wait.polls = wait.falsy + 1
  /\ call.ret = "elements" /\ wait.last = "elements"

\* C5: over the polls of one click-then-wait predicate instance the source
\* element is clicked at most once, whatever faults the polls meet.
C5_ClickAtMostOnce ==
  (AtStep /\ CurStep.what \in ClickPredicates) => hist.clicks <= 1

\* C6 (as stated): over the polls of one keys-verification instance the keys
\* are sent on the first poll only.
C6_SentOnFirstPollOnly ==
  CurPred \in KeysPredicates => hist.sends <= 1

\* C6 (amended): over the polls of one keys-verification instance only the
\* max-length resolution happens once; every poll that finds the element and
\* meets no fault clears the field and sends the keys again (what the field
\* then holds is left open for the src/driver class that performs its chain
\* once for each key).
C6_ResolveOnceSendEveryPoll ==
  /\ [](CurPred \in KeysPredicates =>
          (hist.resolutions <= 1 /\ hist.sends <= wait.polls))
  /\ [][ (wait.active /\ CurPred \in KeysPredicates /\ hist'.quiet = hist.quiet + 1) =>
           /\ hist'.sends = hist.sends + 1
           /\ (Pylib \/ CurPred = "WaitForKeysVerification") =>
                dom'.value = Typed(<<>>, cfg.keys, dom.attr)
       ]_vars

\* C6 witness: a keys-verification instance that resolved its max length once
\* has sent the keys on two polls.
C6_ResentOnLaterPoll ==
  /\ Pylib /\ CurPred \in KeysPredicates
  /\ hist.sends >= 2 /\ hist.quiet >= 1 /\ hist.resolutions = 1

\* C7: a poll of WaitForKeysVerification that meets no fault returns True
\* exactly when the field's value equals keys[:max_length] for the resolved
\* max_length; when the field's maxlength attribute is a positive integer N,
\* N is the resolved max_length and the keys are longer than N, the poll
\* leaves the first N characters of the keys in the field and returns True.
C7_TruncationLaw ==
  [][ (Pylib /\ wait.active /\ CurPred = "WaitForKeysVerification"
         /\ hist'.quiet = hist.quiet + 1) =>
        /\ wait'.last = Bool(dom'.value = Slice(cfg.keys, pred'.max_length.val))
        /\ (PositiveInt(dom.attr) /\ pred'.max_length.val = int(dom.attr.str).val
              /\ Len(cfg.keys) > int(dom.attr.str).val) =>
             /\ dom'.value = SubSeq(cfg.keys, 1, int(dom.attr.str).val)
             /\ wait'.last = "True"
    ]_vars

\* C7 witness: keys longer than the field's maxlength of 2 were sent, the
\* field holds their first two characters and the wait is satisfied.
C7_TruncatedAndSatisfied ==
  /\ Pylib /\ CurPred = "WaitForKeysVerification" /\ ~wait.active /\ ~wait.timedOut
  /\ wait.last = "True" /\ dom.attr = Str(<<"2">>) /\ pred.max_length = Some(2)
  /\ Len(cfg.keys) > 2 /\ dom.value = SubSeq(cfg.keys, 1, 2)

\* C8: _get_max_length returns the maxlength attribute when it can be read, is
\* present, not blank, parses as an integer and is positive; otherwise the
\* configured fallback if one was given; otherwise min(length of the current
\* value + 100, 10000) if the value can be read; otherwise 1000.
C8_ResolutionOrder ==
  gml.out.some =>
    LET usable == ~gml.attrFault /\ PositiveInt(gml.attr)
        out == gml.out.val
    IN /\ usable => out = int(gml.attr.str).val
       /\ (~usable /\ gml.fallback.some) => out = gml.fallback.val
       /\ (~usable /\ ~gml.fallback.some /\ ~gml.propFault) =>
            out = Min(Len(gml.value) + LengthBuffer, LengthCap)
       /\ (~usable /\ ~gml.fallback.some /\ gml.propFault) => out = LengthDefault

\* C8 witness: a usable attribute was preferred to a configured fallback.
C8_AttributeBeforeFallback ==
  /\ gml.out.some /\ ~gml.attrFault /\ PositiveInt(gml.attr) /\ gml.fallback.some
  /\ gml.out.val = int(gml.attr.str).val /\ gml.out.val # gml.fallback.val

\* C9: once a poll of a keys-verification instance has found the element,
\* max_length_set is True and max_length was resolved exactly once; while the
\* instance is polled, max_length keeps its value.
C9_ResolvedOnce ==
  /\ []((Pylib /\ CurPred \in KeysPredicates /\ hist.found) =>
          (pred.max_length_set /\ pred.max_length.some /\ hist.resolutions = 1))
  /\ [][ (wait.active /\ pred.max_length_set) =>
           (pred'.max_length_set /\ pred'.max_length = pred.max_length) ]_vars

\* C9 witness: the instance resolved max_length 2 from the attribute, the
\* attribute has changed since, and the instance has been polled again.
C9_KeptAfterAttributeChanged ==
  /\ Pylib /\ CurPred \in KeysPredicates /\ wait.polls >= 2 /\ hist.sends >= 2
  /\ pred.max_length_set /\ pred.max_length = Some(2) /\ dom.attr # Str(<<"2">>)

\* C10: on a field without a length limit, every poll of
\* WaitForKeysVerification that sends the keys leaves the field holding
\* exactly the keys, whatever it held before.
C10_IdempotentUnderRetry ==
  [][ (wait.active /\ CurPred = "WaitForKeysVerification"
         /\ ~NativeLimit(dom.attr).some /\ hist'.sends = hist.sends + 1) =>
        dom'.value = cfg.keys ]_vars

\* C10 witness: the keys were sent on two polls to a field without a limit,
\* and the field holds the keys once.
C10_SentTwiceHoldsKeys ==
  /\ CurPred = "WaitForKeysVerification" /\ hist.sends >= 2
  /\ ~NativeLimit(dom.attr).some /\ dom.value = cfg.keys

\* C11: a wait on WaitForElementToBeStale is satisfied only by a poll at which
\* the element does not resolve: its node is gone from the page, or the
\* driver's find_element faulted.
C11_StaleOnlyWhenUnresolvable ==
  (CurPred = "WaitForElementToBeStale" /\ ~AtStep /\ ~wait.timedOut
     /\ wait.polls >= 1 /\ wait.last = "True") =>
    (~dom.present \/ hist.fault = "find")

\* C12: a poll of WindowHandleToBeAvailable(index) returns the handle at
\* position index when the session has more than index handles and reading
\* them does not fault, returns False otherwise, and leaves the session as it
\* was.
C12_HandleAtIndexOrFalse ==
  [][ (wait.active /\ AtStep /\ CurStep.what = "WindowHandleToBeAvailable"
         /\ wait'.polls = wait.polls + 1) =>
        /\ dom' = dom
        /\ wait'.last = IF cfg.index < Len(dom.handles) /\ hist'.fault = "none"
                        THEN dom.handles[cfg.index + 1] ELSE "False"
    ]_vars

\* C12 witness: the wait for index 1 met a poll with the index out of range,
\* then returned the second handle once the window had opened.
C12_HandleAfterOutOfRange ==
  /\ cfg.op = "find_window_handle_switch_to_it"
  /\ cfg.index = 1 /\ ~wait.active /\ ~wait.timedOut /\ wait.falsy >= 1
  /\ hist.fault = "none" /\ Len(dom.handles) >= 2 /\ wait.last = dom.handles[2]


\* The windows that were open when the call, and with it the wait, started.
WindowsAtStart == Len(dom.handles) + hist.closes - hist.opened
\* The wait on WindowHandleToBeAvailableSwitchClosePrevious reported satisfied.
SwitchedClosePrevious ==
  /\ CurPred = "WindowHandleToBeAvailableSwitchClosePrevious"
  /\ wait.polls >= 1 /\ ~wait.timedOut /\ wait.last = "True"

\* C13 (as amended): for index > 0, a poll of
\* WindowHandleToBeAvailableSwitchClosePrevious(index) that reports satisfied
\* leaves exactly one window fewer than were open when that poll began, and
\* the focus on the window that was at position index, which is still open.
C13_OneFewerThanAtPoll ==
  [][ (wait.active /\ AtStep
         /\ CurStep.what = "WindowHandleToBeAvailableSwitchClosePrevious"
         /\ cfg.index > 0 /\ wait'.polls = wait.polls + 1 /\ wait'.last = "True") =>
        /\ Len(dom'.handles) = Len(dom.handles) - 1
        /\ dom'.focus = dom.handles[cfg.index + 1]
        /\ InSeq(dom'.focus, dom'.handles) ]_vars

\* C13 witness: the wait was satisfied for index 1 after a poll that found the
\* index out of range and a window the page opened since.
C13_SatisfiedAfterWindowOpened ==
  /\ SwitchedClosePrevious /\ cfg.index = 1
  /\ wait.falsy >= 1 /\ hist.opened = 1 /\ hist.closes = 1
  /\ dom.handles = <<"w2">> /\ dom.focus = "w2"

\* C13 (as stated): for index > 0, when the wait reports satisfied, exactly
\* one window fewer is open than before the wait started.
C13_OneFewerThanAtStart ==
  (SwitchedClosePrevious /\ cfg.index > 0) =>
    Len(dom.handles) = WindowsAtStart - 1

\* C14: when a poll of WindowHandleToBeAvailableSwitchClosePrevious(index),
\* index > 0, closes a window, the window closed is the one at position
\* index - 1 of the handles, and it is not the target at position index.
C14_ClosesHandleBeforeIndex ==
  [][ (wait.active /\ AtStep
         /\ CurStep.what = "WindowHandleToBeAvailableSwitchClosePrevious"
         /\ cfg.index > 0 /\ hist'.closes = hist.closes + 1) =>
        /\ hist'.closed = dom.handles[cfg.index]
        /\ hist'.closed # dom.handles[cfg.index + 1] ]_vars

\* C15: while WaitForLoadAfterClick has not called click(), every poll so far
\* met a fault resolving the element, and the last of them reported not
\* satisfied.
C15_FaultBeforeClickKeepsPolling ==
  (CurPred = "WaitForLoadAfterClick" /\ wait.polls >= 1 /\ hist.clickCalls = 0) =>
    wait.last = "False"

\* One poll of WaitForLoadAfterClick is being made.
PollOfWaitForLoadAfterClick ==
  /\ wait.active /\ AtStep /\ CurStep.what = "WaitForLoadAfterClick"
  /\ wait'.polls = wait.polls + 1

\* C16, the polls without a fault: on a poll of WaitForLoadAfterClick where
\* the element resolves and no call raises, an unclicked instance clicks once, becomes
\* clicked and reports not satisfied; a clicked instance does not click and
\* reports satisfied exactly when the element's enabled flag is False.
C16_ClickThenEnabledFlag ==
  [][ (PollOfWaitForLoadAfterClick /\ dom.present /\ hist'.fault = "none") =>
        IF ~pred.clicked
        THEN /\ wait'.last = "False" /\ pred'.clicked
             /\ hist'.clicks = hist.clicks + 1
        ELSE /\ wait'.last = Bool(~dom.enabled) /\ pred'.clicked
             /\ hist'.clicks = hist.clicks ]_vars

\* C16, such a run: the click poll and a poll that found the element enabled were
\* not satisfied, and a later poll found it disabled and was.
C16_SettledAfterEnabledPoll ==
  /\ CurPred = "WaitForLoadAfterClick" /\ pred.clicked /\ hist.clicks = 1
  /\ wait.falsy >= 2 /\ wait.last = "True" /\ ~wait.timedOut
  /\ hist.fault = "none" /\ dom.present /\ ~dom.enabled

\* C16: the poll of WaitForLoadAfterClick that calls click() never reports
\* satisfied.
C16_ClickPollNeverSatisfied ==
  [][ (PollOfWaitForLoadAfterClick /\ hist'.clickCalls = hist.clickCalls + 1) =>
        wait'.last = "False" ]_vars

\* C17: once WaitForElementAfterClick has clicked, a poll on which the waited
\* locator resolves and the driver raises nothing of its own reports
\* satisfied, whether or not the source locator resolves on that poll.
C17_SatisfiedWhenWaitedResolves ==
  [][ (wait.active /\ AtStep /\ CurStep.what = "WaitForElementAfterClick"
         /\ wait'.polls = wait.polls + 1
         /\ pred.clicked /\ dom.present2 /\ hist'.fault = "none") =>
        wait'.last = "True" ]_vars

\* C18: a poll of WaitForValueToChange that cannot read the element's text
\* is not satisfied and leaves the baseline as it was; the first poll that
\* reads it stores the text as the baseline and is not satisfied; every later
\* poll leaves the baseline alone and is satisfied exactly when the text it
\* reads differs from the baseline, an empty baseline included.
C18_BaselineKeptAndCompared ==
  [][ (wait.active /\ AtStep /\ CurStep.what = "WaitForValueToChange"
         /\ wait'.polls = wait.polls + 1) =>
        IF ~dom.present \/ hist'.fault # "none"
        THEN wait'.last = "False" /\ pred'.previous_text = pred.previous_text
        ELSE IF pred.previous_text = NoText
        THEN /\ wait'.last = "False"
             /\ pred'.previous_text = [some |-> TRUE, val |-> dom.text]
        ELSE /\ pred'.previous_text = pred.previous_text
             /\ wait'.last = Bool(pred.previous_text.val # dom.text) ]_vars

\* C18 witness: the baseline is the empty string, a poll after the one that
\* stored it found the same text, and the last poll read "a" and was satisfied.
C18_ChangedFromEmptyBaseline ==
  /\ CurPred = "WaitForValueToChange" /\ ~wait.timedOut
  /\ pred.previous_text = [some |-> TRUE, val |-> ""]
  /\ wait.falsy >= 2 /\ wait.last = "True" /\ dom.text = "a" /\ hist.fault = "none"

\* C19: a poll of WaitForKeysVerificationWithDelay calls perform() at most
\* once, and exactly once when it is satisfied.
C19_OnePerformPerPoll ==
  [][ (wait.active /\ AtStep /\ CurStep.what = "WaitForKeysVerificationWithDelay"
         /\ wait'.polls = wait.polls + 1) =>
        /\ hist'.performs <= hist.performs + 1
        /\ wait'.last = "True" => hist'.performs = hist.performs + 1 ]_vars

\* The cookies of the file, as the load loop hands them to the driver.
FileCookies == {_coerce_expiry_int(jar.file.cookies[i]) : i \in 1..Len(jar.file.cookies)}
\* The step just taken was a load into a session without cookies in which the
\* driver raised nowhere and rejected no cookie.
LoadedIntoFresh ==
  jar.last = "load" /\ jar.fresh /\ \A i \in 1..Len(jar.log) : jar.log[i].ok

\* C20 (as amended): a load into a fresh session with no fault puts every
\* cookie of a dumped file into the session, expired ones included and float
\* expiries cut to whole seconds, when the file's list looks useful at load
\* time (one cookie fresh and one name holding an auth hint); it loads
\* nothing otherwise.
C20_RoundTripAllOrNothing ==
  LoadedIntoFresh =>
    IF jar.file.kind = "list" /\ _cookies_useful(jar.file.cookies, jar.now)
    THEN jar.ret = "True" /\ jar.session = FileCookies
    ELSE jar.ret = "False" /\ jar.session = {}

\* C20 witness: a dumped file came back whole into a fresh session, with a
\* cookie in it that was no longer fresh at the time of the load.
C20_ExpiredCookieLoaded ==
  /\ LoadedIntoFresh /\ jar.ret = "True" /\ jar.file.kind = "list"
  /\ jar.session = FileCookies
  /\ \E i \in 1..Len(jar.file.cookies) : ~fresh(jar.file.cookies[i], jar.now)

\* C20 (as stated): after a dump and a load into a fresh session, the session
\* holds the fresh cookies of the file and none of the others.
C20_RoundTripDropsExpired ==
  (LoadedIntoFresh /\ jar.file.kind = "list") =>
    jar.session =
      {_coerce_expiry_int(jar.file.cookies[i]) :
         i \in {k \in 1..Len(jar.file.cookies) : fresh(jar.file.cookies[k], jar.now)}}

\* A step that is one call of dump_cookies_to_file.
DumpStep == jar'.calls = jar.calls + 1 /\ jar'.last = "dump"
\* The call named name was made in the call on record and returned / raised.
Made(log, name) == \E i \in 1..Len(log) : log[i].call = name /\ log[i].ok
Raised(log, name) == \E i \in 1..Len(log) : log[i].call = name /\ ~log[i].ok

\* C21: a dump leaves the cookie file holding what it held before or the
\* whole list of the session's cookies, never a list cut short; when
\* pickle.dump raises, and whenever the dump returns False, the cookie file
\* is what it was.
C21_TargetWholeOldOrNew ==
  [][ DumpStep =>
        /\ jar'.file \in {jar.file, Pickled(get_cookies(jar.session))}
        /\ jar'.file.kind # "partial"
        /\ Raised(jar'.log, "pickle.dump") => jar'.file = jar.file /\ jar'.ret = "False"
        /\ jar'.ret = "False" => jar'.file = jar.file ]_vars

\* C21 witness: pickle.dump raised in a dump over a cookie file an earlier
\* dump had written: the .tmp file is cut short, the cookie file is whole.
C21_SerializationFailedOverWrittenFile ==
  /\ jar.last = "dump" /\ jar.ret = "False" /\ Raised(jar.log, "pickle.dump")
  /\ jar.tmp.kind = "partial" /\ jar.file.kind = "list" /\ jar.file.cookies # <<>>

\* C22: a dump returns True exactly when os.replace put the list in place
\* of the cookie file; with require_useful it gets that far only when one
\* cookie of the session is fresh and one name holds an auth hint, and
\* otherwise returns False with the cookie file and the .tmp file untouched;
\* with no fault it writes whenever the gate lets it.
C22_TrueIffWritten ==
  [][ DumpStep =>
        LET cookies == get_cookies(jar.session)
            useful == _cookies_useful(cookies, jar.now)
            written == Made(jar'.log, "os.replace")
        IN /\ jar'.ret = "True" <=> written
           /\ written => jar'.file = Pickled(cookies)
           /\ ~written => jar'.file = jar.file
           /\ (jar'.require_useful /\ written) => useful
           /\ (jar'.require_useful /\ ~useful) =>
                /\ jar'.ret = "False" /\ jar'.file = jar.file /\ jar'.tmp = jar.tmp
                /\ \A i \in 1..Len(jar'.log) : jar'.log[i].call = "get_cookies"
           /\ ((\A i \in 1..Len(jar'.log) : jar'.log[i].ok)
                 /\ (jar'.require_useful => useful)) => written ]_vars

\* C22 witness: a dump with require_useful, no call raising, of a session
\* that holds cookies none of which carries an auth hint: False, nothing
\* written.
C22_UselessSessionNotWritten ==
  /\ jar.last = "dump" /\ jar.require_useful /\ jar.ret = "False"
  /\ jar.log = Log(<<"get_cookies">>, "none")
  /\ jar.session # {} /\ \A c \in jar.session : ~looks_auth(c)
  /\ jar.file.kind = "missing" /\ jar.tmp.kind = "missing"

\* The cookie file passes every check of the load: a list that looks useful.
Passes == jar.file.kind = "list" /\ _cookies_useful(jar.file.cookies, jar.now)
\* The calls the call on record made on the driver.
DriverCalls == {"get", "delete_all_cookies", "add_cookie", "refresh"}

\* C23 (as stated): a load returns True exactly when a cookie of the file was
\* added to the session, and calls refresh exactly then; it returns False
\* when the file is missing, empty, unreadable, not a list or not useful.
C23_TrueIffCookieAdded ==
  jar.last = "load" =>
    /\ jar.ret \in {"True", "False"}
    /\ jar.ret = "True" <=> Made(jar.log, "add_cookie")
    /\ (\E i \in 1..Len(jar.log) : jar.log[i].call = "refresh") <=> Made(jar.log, "add_cookie")
    /\ (~Passes \/ Raised(jar.log, "pickle.load")) => jar.ret = "False"

\* The place of a call in the order of the load.
Rank(c) ==
  CASE c.call = "pickle.load" -> 0
    [] c.call = "get" -> 1
    [] c.call = "delete_all_cookies" -> 2
    [] c.call = "add_cookie" -> 2 + c.arg
    [] c.call = "refresh" -> 3 + Len(jar.file.cookies)
\* The calls of the load on record are in the order of the load, each once.
InLoadOrder == \A i, k \in 1..Len(jar.log) : i < k => Rank(jar.log[i]) < Rank(jar.log[k])
\* The load on record got as far as its loop.
ReachedLoop == \E i \in 1..Len(jar.log) : jar.log[i].call \in {"add_cookie", "refresh"}

\* C30 (as amended): the driver calls of a load come in the order get,
\* delete_all_cookies, add_cookie for each cookie of the file in file order,
\* refresh, each at most once; get is called only with base_url and
\* delete_all_cookies only with clear_first; the loop is reached only after
\* those of the two that were asked for returned, and then add_cookie is
\* called for every cookie, rejected or not; refresh is called exactly when
\* some add_cookie returned; no driver call is made for a file that is
\* missing, empty, not a list or not useful.
C30_FixedOrderAfterChecks ==
  jar.last = "load" =>
    /\ InLoadOrder
    /\ ~Passes => \A i \in 1..Len(jar.log) : jar.log[i].call \notin DriverCalls
    /\ (\E i \in 1..Len(jar.log) : jar.log[i].call = "get") => jar.base_url
    /\ (\E i \in 1..Len(jar.log) : jar.log[i].call = "delete_all_cookies") => jar.clear_first
    /\ ReachedLoop =>
         /\ jar.base_url => Made(jar.log, "get")
         /\ jar.clear_first => Made(jar.log, "delete_all_cookies")
         /\ \A n \in 1..Len(jar.file.cookies) :
              \E i \in 1..Len(jar.log) : jar.log[i].call = "add_cookie" /\ jar.log[i].arg = n
    /\ (Passes /\ \A i \in 1..Len(jar.log) :
                    jar.log[i].call \in {"pickle.load", "get", "delete_all_cookies"} => jar.log[i].ok)
         => /\ ReachedLoop
            /\ jar.base_url => Made(jar.log, "get")
            /\ jar.clear_first => Made(jar.log, "delete_all_cookies")
    /\ (\E i \in 1..Len(jar.log) : jar.log[i].call = "refresh") <=> Made(jar.log, "add_cookie")

\* C30 witness: a load that navigated, cleared, had its first add_cookie
\* rejected, went on to add the second cookie, and refreshed.
C30_SkippedOneAddedNextRefreshed ==
  /\ jar.last = "load" /\ jar.ret = "True"
  /\ jar.log = <<L("pickle.load", 0, TRUE), L("get", 0, TRUE),
                 L("delete_all_cookies", 0, TRUE), L("add_cookie", 1, FALSE),
                 L("add_cookie", 2, TRUE), L("refresh", 0, TRUE)>>
  /\ Cardinality(jar.session) = 1

\* C30 (as stated): a load of a file that passed every check, with get and
\* delete_all_cookies returning, ends with one refresh after its add_cookie
\* calls.
C30_AlwaysOneRefresh ==
  (jar.last = "load" /\ ReachedLoop) =>
     jar.log[Len(jar.log)].call = "refresh"

\* A step that is one pass of the loop of perform_action.
LoopStep == ce.pc = "loop" /\ [ce' EXCEPT !.gen = ce.gen] # ce

\* C24: a pass of perform_action that meets a stale reference clears the
\* cache, sleeps once and leaves the loop running; a pass that starts with
\* an empty cache locates the element before it invokes the action, and one
\* that starts with a cached element reuses it; one call invokes the action
\* at most max_retries times and ends at the first invocation that
\* completes; the element is located once, and again only after a stale
\* fault.
C24_RetriesOnStale ==
  [][ LoopStep =>
        /\ ce'.fault = "stale" =>
              /\ ce'.element = 0 /\ ce'.sleeps = ce.sleeps + 1
              /\ ce'.retries = ce.retries + 1 /\ ce'.pc = "loop"
        /\ (ce.element = 0 /\ ce'.actions = ce.actions + 1) => ce'.locates = ce.locates + 1
        /\ ce.element # 0 => ce'.locates = ce.locates
        /\ ce'.actions <= ce.max_retries
        /\ ce'.done = ce.done + 1 => ce'.pc = "idle" /\ ce'.outcome = "returned"
        /\ ce'.done <= 1
        /\ ce'.locates <= (IF ce'.first = 0 THEN 1 ELSE 0) + ce'.stales ]_vars

\* C24 witness: a call on a cached element that had gone stale: the first
\* invocation raised, the element was located again, the second completed.
C24_CompletedAfterStaleRetry ==
  /\ ce.outcome = "returned" /\ ce.done = 1 /\ ce.first # 0
  /\ ce.stales = 1 /\ ce.sleeps = 1 /\ ce.locates = 1 /\ ce.actions = 2
  /\ ce.element = ce.gen

\* C28 (as stated): perform_action returns only when the action completed,
\* once.
C28_ReturnsOnlyAfterAction ==
  ce.outcome = "returned" => ce.done = 1

\* C29 (as amended): an exception other than a stale reference, from
\* find_element or from the action, leaves perform_action in the pass where
\* it occurs, with no retry counted and no sleep; the cache is not cleared:
\* a cached element stays, an empty cache stays empty when find_element
\* raised, and holds the element just located when the action raised.
C29_OtherExceptionPropagatesAtOnce ==
  [][ (LoopStep /\ ce'.fault \in {"find_element", "action"}) =>
        /\ ce'.outcome = "raised" /\ ce'.pc = "idle"
        /\ ce'.retries = ce.retries /\ ce'.sleeps = ce.sleeps
        /\ ce'.done = ce.done
        /\ ce.element # 0 => ce'.element = ce.element
        /\ (ce.element = 0 /\ ce'.fault = "find_element") => ce'.element = 0
        /\ (ce.element = 0 /\ ce'.fault = "action") => ce'.element = ce.gen ]_vars

\* C29 witness: the action raised on an element located in that very pass:
\* the call ended at once, and the cache, empty before, holds the element.
C29_RaisedWithElementJustCached ==
  /\ ce.outcome = "raised" /\ ce.fault = "action"
  /\ ce.was = 0 /\ ce.element # 0 /\ ce.sleeps = 0 /\ ce.retries = 0

\* C29 (as stated): after such an exception the cached element is what it
\* was before the pass.
C29_CacheAsBeforeThePass ==
  [][ (LoopStep /\ ce'.fault \in {"find_element", "action"}) =>
        ce'.element = ce.element ]_vars

\* C26 (as stated): an exception leaves retry(retries = n) only after the
\* function was invoked n + 1 times, the first time and n retries; a value
\* returned is that of the first invocation that succeeded, the last made.
C26_RaisesAfterNthRetry ==
  rt.kind = "retry" =>
    /\ rt.outcome = "raised" => rt.calls = rt.retries + 1
    /\ rt.outcome = "returned" => rt.calls = rt.fails + 1 /\ rt.ret = rt.calls

Rus == rt.kind = "retry_until_successful"

\* C27: retry_until_successful never ends with an exception; when it
\* returns, the function has been invoked once more than it failed, with a
\* sleep of delay after each failure, and the value is that of the last
\* invocation, the first that succeeded; a call whose function fails only
\* finitely often returns; a call whose function fails forever never
\* returns and goes on invoking it.
C27_ReturnsFirstSuccessOrNever ==
  /\ [](Rus => rt.outcome # "raised")
  /\ []((Rus /\ rt.outcome = "returned") =>
          /\ ~rt.forever /\ rt.calls = rt.fails + 1 /\ rt.ret = rt.calls
          /\ rt.slept = rt.delay * rt.fails)
  /\ (Rus /\ rt.pc = "while" /\ ~rt.forever) ~> (rt.outcome = "returned")
  /\ []((Rus /\ rt.forever) => rt.outcome # "returned")
  /\ (Rus /\ rt.pc = "while" /\ rt.forever) ~> (rt.calls = CallCap /\ rt.pc = "while")

\* C27 witness: the wrapper returned the value of the third invocation of a
\* function that had failed twice, after two sleeps.
C27_ReturnedThirdInvocation ==
  /\ Rus /\ rt.outcome = "returned" /\ rt.fails = 2 /\ rt.calls = 3 /\ rt.ret = 3
  /\ rt.delay = 1 /\ rt.slept = 2

\* C25: a poll of a class of wait.py, whatever the session does in it,
\* returns a value: the wait is not left by an exception of the predicate;
\* it goes on after a poll that is not satisfied, and it ends only by a
\* satisfied poll or, its time used up, by the timeout.
C25_PredicatesTotal ==
  [][ (AtStep /\ CurStep.kind = "wait" /\ CurStep.what \in CustomPredicates
         /\ wait.active) =>
        /\ wait'.last # "raise"
        /\ wait'.polls = wait.polls + 1 =>
              /\ call'.outcome = "running"
              /\ wait'.active \/ Truthy(wait'.last)
        /\ ~wait'.active =>
              \/ wait'.polls = wait.polls + 1 /\ Truthy(wait'.last)
              \/ wait'.timedOut /\ wait.elapsed >= PollTime ]_vars

\* C25 witness: execute_script raised in a poll of WaitForElementReadyState;
\* the poll returned False and the wait goes on.
C25_FaultPolledAsFalse ==
  /\ AtStep /\ CurStep.what = "WaitForElementReadyState"
  /\ wait.active /\ wait.polls > 0 /\ wait.last = "False"
  /\ hist.fault = "execute_script"

\* A step that is one call of load_cookies_from_file.
LoadStep == jar'.calls = jar.calls + 1 /\ jar'.last = "load"

\* C31 (as stated): a load that returns False leaves the cookies of the
\* session as they were before the call.
C31_FailedLoadKeepsSession ==
  [][ (LoadStep /\ jar'.ret = "False") => jar'.session = jar.session ]_vars

\* C32 (as stated): one call of click_and_wait_for_html_load clicks the
\* element at most once.
C32_OneClickPerCall ==
  cfg.op = "click_and_wait_for_html_load" => call.clicks <= 1

\* A wait on WaitForHtmlLoadAfterClick is under way.
WaitingForHtmlLoad ==
  AtStep /\ CurStep.kind = "wait" /\ CurStep.what = "WaitForHtmlLoadAfterClick"
    /\ wait.active

\* C33: a poll of WaitForHtmlLoadAfterClick on which the locator resolves
\* and no call raises reports not satisfied, the poll that clicks and every
\* later one; so the wait is never satisfied but by a poll that met a fault
\* or did not resolve the locator, and a wait whose polls all resolve it
\* without a fault ends in the timeout.
C33_SatisfiedOnlyByFault ==
  /\ [][ (WaitingForHtmlLoad /\ wait'.polls = wait.polls + 1) =>
            /\ (dom.present /\ hist'.fault = "none") => wait'.last = "False"
            /\ wait'.last # "False" =>
                  wait'.last = "True" /\ (~dom.present \/ hist'.fault # "none") ]_vars
  /\ WaitingForHtmlLoad ~>
        (wait.timedOut \/ (wait.last = "True" /\ (~dom.present \/ hist.fault # "none")))

\* C33 witness: the wait timed out on an element that was clicked once and
\* resolved, with no fault, on the last poll as on the polls before it.
C33_TimedOutOnResolvableElement ==
  /\ cfg.op = "click_and_wait_for_html_load" /\ Pylib
  /\ CurPred = "WaitForHtmlLoadAfterClick" /\ wait.timedOut
  /\ pred.clicked /\ hist.clicks = 1 /\ wait.polls >= 2 /\ wait.falsy = wait.polls
  /\ dom.present /\ hist.fault = "none"

\* C34 (as stated): on a field whose maxlength attribute sets no limit, with
\* no fallback configured, the poll of WaitForKeysVerification that resolves
\* the max length, meets no fault and leaves the whole key string in the
\* field reports satisfied, however long the key string is.
C34_WholeKeysAlwaysSatisfy ==
  [][ (Pylib /\ wait.active /\ CurPred = "WaitForKeysVerification"
         /\ hist'.quiet = hist.quiet + 1 /\ ~pred.max_length_set
         /\ ~NativeLimit(dom.attr).some /\ ~cfg.fallback.some
         /\ dom'.value = cfg.keys) =>
        wait'.last = "True" ]_vars

\* C35 (as stated): from any state a wait on one of the two keys predicates
\* of src/pylibselenium is in, a poll of WaitForKeysVerification and a poll
\* of WaitForKeysVerificationWithDelay with the same arguments, met by the
\* same faults, return the same result and leave the same value in the field.
C35_SamePollOutcome ==
  (Pylib /\ wait.active /\ CurPred \in KeysPredicates) =>
    \A f \in {"none", "find", "click", "clear", "send_keys", "get_property"},
       g \in SUBSET {"attr", "prop"} :
      LET plain == WaitForKeysVerification(dom, pred, hist, f, g)
          delayed == WaitForKeysVerificationWithDelay(dom, pred, hist,
                                                      WithDelayFault(f), g)
      IN plain.res = delayed.res /\ plain.dom.value = delayed.dom.value

\* C36 (as stated): the polls of one WindowHandleToBeAvailableSwitchClosePrevious
\* instance close at most one window between them, and when the wait has
\* ended with a window closed the session's focus is on an open window.
C36_OneCloseAndFocusOpen ==
  (CurPred = "WindowHandleToBeAvailableSwitchClosePrevious" /\ wait.polls >= 1) =>
    /\ hist.closes <= 1
    /\ (~wait.active /\ hist.closes >= 1) => InSeq(dom.focus, dom.handles)

\* C37 (as stated): a poll made for
\* find_window_handle_switch_to_it_close_previous(0) closes no window; when
\* a window is open and the driver does not fault, it puts the focus on the
\* first handle and reports satisfied.
C37_IndexZeroClosesNothing ==
  [][ (cfg.op = "find_window_handle_switch_to_it_close_previous" /\ cfg.index = 0
         /\ wait.active /\ wait'.polls = wait.polls + 1) =>
        /\ hist'.closes = hist.closes /\ dom'.handles = dom.handles
        /\ (dom.handles # <<>> /\ hist'.fault = "none") =>
             dom'.focus = dom.handles[1] /\ wait'.last = "True" ]_vars

\* The call under way is check_element_for_value_change(forever=True) of
\* src/pylibselenium.
WatchingForever == Pylib /\ cfg.op = "check_element_for_value_change_forever"

\* C38: every wait of check_element_for_value_change(forever=True) starts
\* with a predicate that has no baseline, and is satisfied only by a poll
\* that reads a text different from the baseline this wait captured; the
\* call returns only after such a poll and never raises with throw disabled,
\* where a wait that timed out is followed by another; with throw enabled it
\* raises Error at the first wait that times out, and only then.
C38_FreshBaselineEveryWait ==
  /\ [](WatchingForever =>
          /\ call.outcome = "returned" =>
                wait.last = "True" /\ ~wait.timedOut /\ pred.previous_text.some
          /\ ~cfg.throw => call.outcome # "raised"
          /\ (~cfg.throw /\ wait.timedOut) => call.outcome = "running"
          /\ (cfg.throw /\ wait.timedOut) =>
                call.outcome = "raised" /\ call.exc = "Error" /\ call.rounds = 0
          /\ call.outcome = "raised" => cfg.throw /\ wait.timedOut)
  /\ [][ WatchingForever =>
          /\ (~wait.active /\ wait'.active) => ~pred'.previous_text.some
          /\ (~wait.timedOut /\ wait'.timedOut) => call'.rounds = call.rounds + 1
                                                    \/ call'.outcome = "raised"
          /\ (wait'.polls = wait.polls + 1 /\ wait'.last = "True") =>
                /\ pred.previous_text.some /\ pred.previous_text.val # dom.text
                /\ wait.polls >= 1 /\ hist'.fault = "none" ]_vars

\* C38 witness: with throw disabled the first wait timed out on an unchanged
\* text, and the call returned after the second wait, whose baseline was the
\* text at its own first poll, saw the text change.
C38_ReturnedAfterSecondWait ==
  /\ WatchingForever /\ ~cfg.throw /\ call.outcome = "returned"
  /\ call.rounds = 1 /\ wait.polls >= 2 /\ wait.last = "True"
  /\ pred.previous_text.some /\ pred.previous_text.val # dom.text
====
